---- MODULE Spec2Model ----
(***************************************************************************)
(* State-machine models of the scraping scripts of the repository.  Every  *)
(* script is an independent program, so each has its own state variable (a *)
(* record of the script's locals plus the observable history: sessions     *)
(* created and quit, cells written) and its own specification.  While one  *)
(* script runs, the variables of the others stay at Idle.                  *)
(*                                                                         *)
(* Strings are sequences of one-character strings, so that str.strip() and *)
(* the truth value of a string are computed, not assumed.                  *)
(***************************************************************************)
EXTENDS Integers, Sequences, FiniteSets, TLC

VARIABLES pb4, skipbot, mainpy, rapid, pb1, hendry, lee03, rf, pb2, wr

vars == <<pb4, skipbot, mainpy, rapid, pb1, hendry, lee03, rf, pb2, wr>>

\* Largest number of rows the spreadsheet read returns.
MaxRows == 2

\* The value of a script variable while another script is the one running.
Idle == [pc |-> "idle"]

(***************************************************************************)
(* Python values shared by the scripts                                     *)
(***************************************************************************)

\* Python's None where a string is expected (row[0] if row else None).
NoneStr == <<"<None>">>

\* The text returned for a missing field by palmBayPA4.extract_text.
NotFound == <<"N", "o", "t", " ", "F", "o", "u", "n", "d">>

RECURSIVE LStrip(_)
LStrip(s) ==
    IF s = <<>> THEN s
    ELSE IF Head(s) = " " THEN LStrip(Tail(s)) ELSE s

RECURSIVE RStrip(_)
RStrip(s) ==
    IF s = <<>> THEN s
    ELSE IF s[Len(s)] = " " THEN RStrip(SubSeq(s, 1, Len(s) - 1)) ELSE s

\* str.strip(): leading and trailing whitespace removed.
Strip(s) == RStrip(LStrip(s))

\* bool(x) for a string or None: only None and "" are false.
Truthy(x) == x # NoneStr /\ x # <<>>

\* The cell texts a spreadsheet column holds in the model: empty,
\* whitespace only, a plain key, a key with leading whitespace.
Cells == { <<>>, <<" ">>, <<"a">>, <<" ", "b">> }

\* A row of a one-column range as the Sheets API returns it: [] or [cell].
SheetRows == { <<>> } \cup { <<c>> : c \in Cells }

RECURSIVE SeqsUpTo(_, _)
SeqsUpTo(S, n) ==
    IF n = 0 THEN { <<>> }
    ELSE LET shorter == SeqsUpTo(S, n - 1)
         IN  shorter \cup { Append(q, x) : q \in { t \in shorter : Len(t) = n - 1 }, x \in S }

\* What values().get(...).execute().get("values", []) can return.
Columns == SeqsUpTo(SheetRows, MaxRows)

\* The sheet as a function from the cells written so far to their values.
NoCells == [c \in {} |-> <<>>]

\* values().update(range = one cell, body = [[v]]): the cell now holds v.
Put(cells, cell, v) ==
    [c \in DOMAIN cells \cup {cell} |-> IF c = cell THEN v ELSE cells[c]]

(***************************************************************************)
(* palmBayPA4.py: one Firefox session per row, closed in a finally block.  *)
(***************************************************************************)

\* enumerate(sheet_data, start=8209)
PB4_START == 8209

\* Marker of a field element that is not in the page.
Absent == <<"<absent>">>

\* The four field elements of a result page (ownership, additional,
\* property value, building info), each absent or holding its raw text.
PB4_Pages ==
    { <<<<"J", " ">>, <<"x">>, <<" ", "9">>, <<"h">>>>,
      <<<<"J", " ">>, Absent, <<" ", "9">>, Absent>>,
      <<Absent, Absent, Absent, Absent>> }

\* The columns update_google_sheet writes, in its order.
PB4_Cols == <<"C", "D", "E", "F">>

PB4_Row == PB4_START + pb4.idx - 1

PB4_others == <<skipbot, mainpy, rapid, pb1, hendry, lee03, rf, pb2, wr>>

PB4_Start(col) ==
    [pc |-> "loop", sheet_data |-> col, idx |-> 0, site |-> NoneStr,
     driver |-> FALSE, page |-> <<>>, rec |-> <<>>, wk |-> 0, invoked |-> <<>>,
     created |-> <<>>, quits |-> <<>>, path |-> "none", cells |-> NoCells]

\* fetch_data_and_update_sheet up to the loop: the range is read; a failed
\* read raises out of the function before any row.
PB4_InitStates ==
    { PB4_Start(col) : col \in Columns } \cup { [PB4_Start(<<>>) EXCEPT !.pc = "crashed"] }

\* One step of `for i, row in enumerate(sheet_data, start=8209)`: blank
\* rows are skipped, any other row is handed to process_row.
PB4_loop ==
    /\ pb4.pc = "loop"
    /\ IF pb4.idx = Len(pb4.sheet_data)
       THEN pb4' = [pb4 EXCEPT !.pc = "done"]
       ELSE LET row  == pb4.sheet_data[pb4.idx + 1]
                site == IF row # <<>> THEN Strip(row[1]) ELSE NoneStr
            IN  IF ~Truthy(site)
                THEN pb4' = [pb4 EXCEPT !.idx = @ + 1, !.site = site]
                ELSE pb4' = [pb4 EXCEPT !.idx = @ + 1, !.site = site,
                                         !.pc = "create",
                                         !.invoked = Append(@, PB4_START + pb4.idx)]
    /\ UNCHANGED PB4_others

\* driver = webdriver.Firefox(...): the session exists, or the constructor
\* raises with driver still None.
PB4_create ==
    /\ pb4.pc = "create"
    /\ \E ok \in BOOLEAN :
         pb4' = IF ok
                THEN [pb4 EXCEPT !.driver = TRUE, !.pc = "navigate",
                                 !.created = Append(@, PB4_Row)]
                ELSE [pb4 EXCEPT !.pc = "finally", !.path = "no_session"]
    /\ UNCHANGED PB4_others

\* driver.get(search page), then the wait for the search input and
\* send_keys: any of them raising goes to the except block.
PB4_search ==
    /\ pb4.pc = "navigate"
    /\ \E ok \in BOOLEAN :
         pb4' = IF ok THEN [pb4 EXCEPT !.pc = "wait_result"]
                ELSE [pb4 EXCEPT !.pc = "finally", !.path = "search_failed"]
    /\ UNCHANGED PB4_others

\* WebDriverWait(driver, 60) for the results marker.
PB4_wait_result ==
    /\ pb4.pc = "wait_result"
    /\ \E loaded \in BOOLEAN :
         pb4' = IF loaded THEN [pb4 EXCEPT !.pc = "extract"]
                ELSE [pb4 EXCEPT !.pc = "finally", !.path = "timeout"]
    /\ UNCHANGED PB4_others

\* extract_text without its except clause's default: an absent element
\* yields an empty text.
PB4_extract_text_no_default(field) ==
    IF field = Absent THEN <<>> ELSE Strip(field)

\* extract_text: trimmed text of the element, default_value when the wait
\* for it ends in NoSuchElementException or TimeoutException.
PB4_extract_text(field) ==
    IF field = Absent THEN NotFound ELSE Strip(field)

\* The four extract_text calls; an exception extract_text does not catch
\* (the element went stale) leaves the try block.
PB4_extract ==
    /\ pb4.pc = "extract"
    /\ \/ \E page \in PB4_Pages :
            pb4' = [pb4 EXCEPT !.pc = "write", !.wk = 1, !.page = page,
                               !.rec = [k \in 1..4 |-> PB4_extract_text(page[k])]]
       \/ pb4' = [pb4 EXCEPT !.pc = "finally", !.path = "extract_failed"]
    /\ UNCHANGED PB4_others

\* update_google_sheet: four single-cell updates in order C, D, E, F of
\* row i; the first failing update raises out of it.
PB4_update_google_sheet ==
    /\ pb4.pc = "write"
    /\ \E ok \in BOOLEAN :
         pb4' = IF ~ok THEN [pb4 EXCEPT !.pc = "finally", !.path = "write_failed"]
                ELSE [pb4 EXCEPT
                        !.cells = Put(@, <<PB4_Row, PB4_Cols[pb4.wk]>>, pb4.rec[pb4.wk]),
                        !.wk = @ + 1,
                        !.pc = IF pb4.wk = 4 THEN "finally" ELSE "write",
                        !.path = IF pb4.wk = 4 THEN "written" ELSE @]
    /\ UNCHANGED PB4_others

\* PB4_finally with the quit moved to the end of the try block: only a
\* row that was written closes its browser.
PB4_finally_quit_on_success ==
    /\ pb4.pc = "finally"
    /\ pb4' = IF pb4.driver /\ pb4.path = "written"
              THEN [pb4 EXCEPT !.driver = FALSE, !.pc = "loop",
                               !.quits = Append(@, PB4_Row)]
              ELSE [pb4 EXCEPT !.pc = "loop"]
    /\ UNCHANGED PB4_others

\* finally: `if driver: driver.quit()`, then process_row returns.
PB4_finally ==
    /\ pb4.pc = "finally"
    /\ pb4' = IF pb4.driver
              THEN [pb4 EXCEPT !.driver = FALSE, !.pc = "loop",
                               !.quits = Append(@, PB4_Row)]
              ELSE [pb4 EXCEPT !.pc = "loop"]
    /\ UNCHANGED PB4_others

PB4_Next ==
    \/ PB4_loop
    \/ PB4_create
    \/ PB4_search
    \/ PB4_wait_result
    \/ PB4_extract
    \/ PB4_update_google_sheet
    \/ PB4_finally

PB4_Init ==
    /\ pb4 \in PB4_InitStates
    /\ skipbot = Idle /\ mainpy = Idle /\ rapid = Idle
    /\ pb1 = Idle /\ hendry = Idle /\ lee03 = Idle /\ rf = Idle
    /\ pb2 = Idle /\ wr = Idle

SpecPB4 == PB4_Init /\ [][PB4_Next]_vars

\* C1: every session process_row creates is quit exactly once, whatever
\* path the row takes, and no session is open (every created one has been
\* quit) when process_row is invoked for the next row or the loop ends.
C1_SessionClosedOncePerRow ==
    /\ Len(pb4.quits) <= Len(pb4.created)
    /\ \A j \in 1..Len(pb4.quits) : pb4.quits[j] = pb4.created[j]
    /\ \A a, b \in 1..Len(pb4.created) : a # b => pb4.created[a] # pb4.created[b]
    /\ pb4.driver => Len(pb4.created) = Len(pb4.quits) + 1
    /\ pb4.pc \in {"loop", "create", "done"} => ~pb4.driver /\ pb4.quits = pb4.created

\* C1 witness: process_row is invoked for a second row after the first
\* row's sheet write raised, and the first row's session has been quit.
C1_Witness ==
    /\ pb4.pc = "create"
    /\ pb4.invoked = <<PB4_START, PB4_START + 1>>
    /\ pb4.path = "write_failed"
    /\ pb4.quits = <<PB4_START>>

(***************************************************************************)
(* leePA+skip_Bot.py, fetch_data_and_update_sheet: one Firefox session per *)
(* row with a non-empty owner; the cells C, D, E, F, S of the row are      *)
(* written one by one as their elements are read.  main() calls it inside  *)
(* `while True`, each time followed by a second read of the two columns    *)
(* and a loop over the URLs of column X.                                   *)
(***************************************************************************)

\* The prefix is_valid_url requires of a URL.
SKIP_URL_PREFIX == "https://www.truepeoplesearch.com/find/address/"

\* Column X as read by fetch_sheet_data: a row is [] or [url].
SKIP_UrlRows == { <<>>, << <<"h">> >>, << <<SKIP_URL_PREFIX, "x">> >> }

SKIP_UrlColumns == SeqsUpTo(SKIP_UrlRows, MaxRows)

\* The columns written for a row, in the order of the code.
SKIP_Cols == <<"C", "D", "E", "F", "S">>

\* The text of the k-th field element of the details page.
SKIP_FieldText(k) == <<"t", SKIP_Cols[k]>>

\* enumerate(zip(owners, urls), start=2)
SKIP_START == 2

SKIP_Row == SKIP_START + skipbot.idx - 1

SKIP_others == <<pb4, mainpy, rapid, pb1, hendry, lee03, rf, pb2, wr>>

SKIP_Start(owners, urls) ==
    [pc |-> "loop", owners |-> owners, urls |-> urls, idx |-> 0, midx |-> 0,
     owner |-> NoneStr, k |-> 0, open |-> {}, began |-> <<>>, created |-> <<>>,
     searched |-> <<>>, ended |-> <<>>, cells |-> NoCells]

\* fetch_sheet_data: both columns are read; a failed read raises out of
\* fetch_data_and_update_sheet before any row.
SKIP_InitStates ==
    { SKIP_Start(o, u) : o \in Columns, u \in SKIP_UrlColumns }
        \cup { [SKIP_Start(<<>>, <<>>) EXCEPT !.pc = "crashed"] }

\* zip(owners, urls) stops at the shorter of the two columns.
SKIP_ZipLen == IF Len(skipbot.owners) <= Len(skipbot.urls)
               THEN Len(skipbot.owners) ELSE Len(skipbot.urls)

\* One step of the for loop: `if not owner: continue`, where
\* owner = owner_row[0] if owner_row else None.  When the loop is over
\* fetch_data_and_update_sheet returns into main().
SKIP_loop ==
    /\ skipbot.pc = "loop"
    /\ IF skipbot.idx = SKIP_ZipLen
       THEN skipbot' = [skipbot EXCEPT !.pc = "main_read"]
       ELSE LET owner_row == skipbot.owners[skipbot.idx + 1]
                owner     == IF owner_row # <<>> THEN owner_row[1] ELSE NoneStr
            IN  IF ~Truthy(owner)
                THEN skipbot' = [skipbot EXCEPT !.idx = @ + 1, !.owner = owner]
                ELSE skipbot' = [skipbot EXCEPT !.idx = @ + 1, !.owner = owner,
                                                 !.began = Append(@, SKIP_START + skipbot.idx),
                                                 !.pc = "create"]
    /\ UNCHANGED SKIP_others

\* driver = webdriver.Firefox(...), before the try block: a failure is not
\* caught and ends the function.
SKIP_create ==
    /\ skipbot.pc = "create"
    /\ \E ok \in BOOLEAN :
         skipbot' = IF ok
                    THEN [skipbot EXCEPT !.pc = "search",
                                         !.open = @ \cup {SKIP_Row},
                                         !.created = Append(@, SKIP_Row)]
                    ELSE [skipbot EXCEPT !.pc = "crashed"]
    /\ UNCHANGED SKIP_others

\* `except Exception`: the row is over; the loop goes on.  No statement of
\* the except block, and none after it, touches the driver.
SKIP_row_failed(s) ==
    [s EXCEPT !.pc = "loop", !.ended = Append(@, SKIP_START + s.idx - 1)]

\* driver.get(uniform_url), wait for the search box, send_keys(owner, RETURN).
SKIP_search ==
    /\ skipbot.pc = "search"
    /\ \E ok \in BOOLEAN :
         skipbot' = IF ok
                    THEN [skipbot EXCEPT !.pc = "popup",
                                         !.searched = Append(@, SKIP_Row)]
                    ELSE SKIP_row_failed(skipbot)
    /\ UNCHANGED SKIP_others

\* The warning pop-up: wait, find, click inside a bare try/except.
SKIP_popup ==
    /\ skipbot.pc = "popup"
    /\ \E outcome \in {"clicked", "absent", "click_raised"} :
         skipbot' = [skipbot EXCEPT !.pc = "details"]
    /\ UNCHANGED SKIP_others

\* Wait for the result link, open it, wait for the image and click it.
SKIP_details ==
    /\ skipbot.pc = "details"
    /\ \E ok \in BOOLEAN :
         skipbot' = IF ok THEN [skipbot EXCEPT !.pc = "field", !.k = 1]
                    ELSE SKIP_row_failed(skipbot)
    /\ UNCHANGED SKIP_others

\* The k-th field: find its element, then update its cell; either may
\* raise.  After the fifth cell the try block ends normally.
SKIP_field ==
    /\ skipbot.pc = "field"
    /\ \E ok \in BOOLEAN :
         skipbot' =
            IF ~ok THEN SKIP_row_failed(skipbot)
            ELSE [skipbot EXCEPT
                    !.cells = Put(@, <<SKIP_Row, SKIP_Cols[skipbot.k]>>,
                                  SKIP_FieldText(skipbot.k)),
                    !.k = @ + 1,
                    !.pc = IF skipbot.k = 5 THEN "loop" ELSE "field",
                    !.ended = IF skipbot.k = 5 THEN Append(@, SKIP_Row) ELSE @]
    /\ UNCHANGED SKIP_others

\* main(): `owners, urls = fetch_sheet_data()` after the batch function
\* has returned.  The sheet columns A and X are not written by the script,
\* so a read that succeeds returns what the first read returned; a read
\* that raises is caught nowhere.
SKIP_main_read ==
    /\ skipbot.pc = "main_read"
    /\ \E ok \in BOOLEAN :
         skipbot' = [skipbot EXCEPT !.pc = IF ok THEN "main_urls" ELSE "crashed",
                                    !.midx = 0]
    /\ UNCHANGED SKIP_others

\* The characters [\w\-%#] of is_valid_url's pattern, among those used.
SKIP_UrlChars == {"x", "h", "a", "b", "1", "_", "-", "%", "#"}

\* is_valid_url(url) for a string: the prefix followed by one or more of
\* the characters [\w\-%#].
SKIP_is_valid_url(url) ==
    /\ Len(url) >= 2
    /\ url[1] = SKIP_URL_PREFIX
    /\ \A n \in 2..Len(url) : url[n] \in SKIP_UrlChars

\* One pass of `for owner, url in zip(owners, urls)` in main(): url[0] is
\* taken when the row is a non-empty list; is_valid_url on an empty list
\* raises TypeError (pattern.match of a list) outside any try; for a valid
\* URL everything from fetch_page_html to browser.close() is inside
\* try/except and the loop goes on whatever happens.
SKIP_main_urls ==
    /\ skipbot.pc = "main_urls"
    /\ skipbot.midx < SKIP_ZipLen
    /\ LET url_row == skipbot.urls[skipbot.midx + 1]
       IN  IF url_row = <<>>
           THEN skipbot' = [skipbot EXCEPT !.pc = "crashed"]
           ELSE IF SKIP_is_valid_url(url_row[1])
           THEN \E outcome \in {"page", "no_page", "raised"} :
                  skipbot' = [skipbot EXCEPT !.midx = @ + 1]
           ELSE skipbot' = [skipbot EXCEPT !.midx = @ + 1]
    /\ UNCHANGED SKIP_others

\* The URL loop is over and `while True` starts its next pass:
\* fetch_data_and_update_sheet() reads the two columns again.  The sheet
\* keeps its cells and the sessions left open stay open.
SKIP_main_again ==
    /\ skipbot.pc = "main_urls"
    /\ skipbot.midx = SKIP_ZipLen
    /\ \E ok \in BOOLEAN :
         skipbot' = IF ok
                    THEN [SKIP_Start(skipbot.owners, skipbot.urls) EXCEPT
                            !.cells = skipbot.cells, !.open = skipbot.open]
                    ELSE [skipbot EXCEPT !.pc = "crashed"]
    /\ UNCHANGED SKIP_others

SKIP_Next ==
    \/ SKIP_loop
    \/ SKIP_create
    \/ SKIP_search
    \/ SKIP_popup
    \/ SKIP_details
    \/ SKIP_field
    \/ SKIP_main_read
    \/ SKIP_main_urls
    \/ SKIP_main_again

SKIP_Init ==
    /\ skipbot \in SKIP_InitStates
    /\ pb4 = Idle /\ mainpy = Idle /\ rapid = Idle
    /\ pb1 = Idle /\ hendry = Idle /\ lee03 = Idle /\ rf = Idle
    /\ pb2 = Idle /\ wr = Idle

SpecSkipBot == SKIP_Init /\ [][SKIP_Next]_vars

\* The script keeps running: a step that can be taken is taken.
FairSpecSkipBot == SpecSkipBot /\ WF_vars(SKIP_Next)

\* C2: when the session for a row is about to be created, the session of
\* every row that reached a terminal state has been released.
C2_ReleasedBeforeNextRow ==
    skipbot.pc = "create" =>
        \A j \in 1..Len(skipbot.ended) : skipbot.ended[j] \notin skipbot.open

\* A row of column A whose owner key is empty or only whitespace.
SKIP_BlankOwner(owner_row) == owner_row = <<>> \/ Strip(owner_row[1]) = <<>>

\* C6: for a row whose owner key is empty or whitespace only, no session
\* is created, no search is submitted and no cell of the row is written.
C6_BlankOwnerNeverProcessed ==
    \A j \in 1..Len(skipbot.owners) :
        SKIP_BlankOwner(skipbot.owners[j]) =>
            LET r == SKIP_START + j - 1
            IN  /\ \A n \in 1..Len(skipbot.created) : skipbot.created[n] # r
                /\ \A n \in 1..Len(skipbot.searched) : skipbot.searched[n] # r
                /\ \A c \in DOMAIN skipbot.cells : c[1] # r

(***************************************************************************)
(* main.py: URLs from column R; for each, up to MAX_RETRIES Playwright     *)
(* attempts, the Browserless fallback, matching of the extracted entries   *)
(* against the reference names of the row, and one range update.           *)
(***************************************************************************)

\* MAX_RETRIES = 3
MAX_RETRIES == 3

\* base_row of URL_RANGE "R2:R": int(re.search(r"(\d+):\w*", ...).group(1))
M_BASE_ROW == 2

\* ascii_uppercase.index('T')
M_START_COL == 19

\* The characters \w matches among those the model's texts use.
WordChars == {"a", "b", "c", "p", "A", "B", "C", "P", "1"}

\* str.upper() on one character.
UpperChar(c) ==
    CASE c = "a" -> "A" [] c = "b" -> "B" [] c = "c" -> "C" [] c = "p" -> "P"
      [] OTHER -> c

Upper(s) == [j \in 1..Len(s) |-> UpperChar(s[j])]

\* Code-point order of the characters left after upper().
Ord(c) ==
    CASE c = " " -> 32 [] c = "," -> 44 [] c = "1" -> 49 [] c = "A" -> 65
      [] c = "B" -> 66 [] c = "C" -> 67 [] c = "P" -> 80 [] OTHER -> 127

\* Python's < on strings.
RECURSIVE StrLess(_, _)
StrLess(x, y) ==
    IF y = <<>> THEN FALSE
    ELSE IF x = <<>> THEN TRUE
    ELSE IF Head(x) = Head(y) THEN StrLess(Tail(x), Tail(y))
    ELSE Ord(Head(x)) < Ord(Head(y))

\* re.findall(r'\w+', s): the maximal runs of word characters, in order.
RECURSIVE FindWords(_, _)
FindWords(s, cur) ==
    IF s = <<>> THEN (IF cur = <<>> THEN <<>> ELSE <<cur>>)
    ELSE IF Head(s) \in WordChars
         THEN FindWords(Tail(s), Append(cur, Head(s)))
         ELSE (IF cur = <<>> THEN <<>> ELSE <<cur>>) \o FindWords(Tail(s), <<>>)

RECURSIVE InsertSorted(_, _)
InsertSorted(w, ws) ==
    IF ws = <<>> THEN <<w>>
    ELSE IF StrLess(w, Head(ws)) THEN <<w>> \o ws
    ELSE <<Head(ws)>> \o InsertSorted(w, Tail(ws))

\* sorted(words)
RECURSIVE Sorted(_)
Sorted(ws) == IF ws = <<>> THEN <<>> ELSE InsertSorted(Head(ws), Sorted(Tail(ws)))

\* ' '.join(words)
RECURSIVE JoinSpace(_)
JoinSpace(ws) ==
    IF ws = <<>> THEN <<>>
    ELSE IF Len(ws) = 1 THEN ws[1]
    ELSE ws[1] \o <<" ">> \o JoinSpace(Tail(ws))

\* normalize_and_sort(text)
normalize_and_sort(text) == JoinSpace(Sorted(FindWords(Upper(text), <<>>)))

\* re.sub(r'\s+', ' ', s): every run of whitespace becomes one space.
RECURSIVE CollapseSpaces(_)
CollapseSpaces(s) ==
    IF s = <<>> THEN <<>>
    ELSE IF Head(s) = " "
         THEN <<" ">> \o CollapseSpaces(LStrip(s))
         ELSE <<Head(s)>> \o CollapseSpaces(Tail(s))

\* normalize_text(text)
normalize_text(text) == CollapseSpaces(Upper(Strip(text)))

\* Python's `x in y` on strings.
IsSubstring(x, y) ==
    \E j \in 0..(Len(y) - Len(x)) : SubSeq(y, j + 1, j + Len(x)) = x

\* get_sheet_data numbering the rows it keeps instead of the rows it read
\* (enumerate applied after the filter).
RECURSIVE get_sheet_data_renumbered(_)
get_sheet_data_renumbered(values) ==
    IF values = <<>> THEN <<>>
    ELSE LET before == get_sheet_data_renumbered(SubSeq(values, 1, Len(values) - 1))
             row    == values[Len(values)]
         IN  before \o (IF row # <<>> /\ Truthy(Strip(row[1]))
                        THEN << <<Len(before) + 2, Strip(row[1])>> >>
                        ELSE <<>>)

\* get_sheet_data on a successful read: (i + base_row, row[0].strip()) for
\* the rows whose first cell is not blank (i counts from 0).
RECURSIVE get_sheet_data_from(_, _)
get_sheet_data_from(values, i) ==
    IF i = Len(values) THEN <<>>
    ELSE LET row == values[i + 1]
         IN  (IF row # <<>> /\ Len(row) > 0 /\ Truthy(Strip(row[1]))
              THEN << <<i + M_BASE_ROW, Strip(row[1])>> >>
              ELSE <<>>) \o get_sheet_data_from(values, i + 1)

get_sheet_data(values) == get_sheet_data_from(values, 0)

\* The anchors of a loaded results page: a person link whose text has
\* surrounding whitespace plus one other link; or no person link at all.
M_Pages ==
    { << [href |-> <<"/find/person/", "p", "1">>, text |-> <<" ", "b", " ", "a">>],
         [href |-> <<"/about">>, text |-> <<"c">>] >>,
      << [href |-> <<"/about">>, text |-> <<"c">>] >> }

\* extract_links(html) on page HTML: the anchors whose href matches
\* ^/find/person/, as {link, text} with the text stripped.
RECURSIVE extract_links(_)
extract_links(anchors) ==
    IF anchors = <<>> THEN <<>>
    ELSE LET a == Head(anchors)
         IN  (IF a.href[1] = "/find/person/"
              THEN << [link |-> <<"https://www.truepeoplesearch.com">> \o a.href,
                       text |-> Strip(a.text)] >>
              ELSE <<>>) \o extract_links(Tail(anchors))

\* What the cells D..J of a row hold, as values().get returns them.
M_RefRows ==
    { <<>>,
      << <<" ">> >>,
      << <<"A", " ", "b">>, <<" ">> >>,
      << <<"c", "c">>, <<"a", ",", "b">> >> }

\* extract_reference_names on a successful read.
RECURSIVE extract_reference_names(_)
extract_reference_names(vals) ==
    IF vals = <<>> THEN <<>>
    ELSE (IF Truthy(Strip(Head(vals))) THEN <<normalize_text(Head(vals))>> ELSE <<>>)
            \o extract_reference_names(Tail(vals))

\* The inner loop of match_entries for one entry.
RECURSIVE MatchesOf(_, _)
MatchesOf(entry, refs) ==
    IF refs = <<>> THEN <<>>
    ELSE LET nt == normalize_and_sort(entry.text)
             nr == normalize_and_sort(Head(refs))
         IN  (IF IsSubstring(nr, nt) \/ IsSubstring(nt, nr)
              THEN << [link |-> entry.link, text |-> entry.text, matched_to |-> Head(refs)] >>
              ELSE <<>>) \o MatchesOf(entry, Tail(refs))

\* match_entries(extracted, ref_names) for entries that are dicts.
RECURSIVE match_entries(_, _)
match_entries(extracted, refs) ==
    IF extracted = <<>> THEN <<>>
    ELSE MatchesOf(Head(extracted), refs) \o match_entries(Tail(extracted), refs)

\* The values list log_matches_to_sheet builds: for each match the text
\* with its "(Matched: ...)" label, then the link.
RECURSIVE log_values(_)
log_values(matched) ==
    IF matched = <<>> THEN <<>>
    ELSE << Head(matched).text \o <<" (Matched: ">> \o Head(matched).matched_to \o <<")">>,
            Head(matched).link >> \o log_values(Tail(matched))

\* The row of target_range in update_sheet_data.
update_row(row_index) == row_index + 1

\* update_sheet_data: one update of the range starting at column T of the
\* target row; values[j] lands in column T + j.
RECURSIVE update_sheet_data(_, _, _, _)
update_sheet_data(cells, row_index, values, j) ==
    IF j = Len(values) THEN cells
    ELSE update_sheet_data(Put(cells, <<update_row(row_index), M_START_COL + j>>, values[j + 1]),
                           row_index, values, j + 1)

M_others == <<pb4, skipbot, rapid, pb1, hendry, lee03, rf, pb2, wr>>

M_Start(col) ==
    [pc |-> "start", values |-> col, read |-> "pending", url_entries |-> <<>>, k |-> 0,
     attempt |-> 0, attempts |-> <<>>, browser |-> FALSE,
     open_browsers |-> 0, html |-> [kind |-> "none"], extract_calls |-> <<>>,
     extracted |-> <<>>, ref_names |-> <<>>, matched |-> <<>>,
     fallbacks |-> 0, began |-> <<>>, ref_reads |-> <<>>, logged |-> <<>>,
     failed_calls |-> <<>>, writes |-> <<>>, cells |-> NoCells]

M_InitStates == { M_Start(col) : col \in Columns }

\* The (row_index, url) pair the loop is at.
M_row_index == mainpy.url_entries[mainpy.k][1]

\* M_get_sheet_data when a read that raised still yields the rows.
M_get_sheet_data_ignores_failure ==
    /\ mainpy.pc = "start"
    /\ \E read_ok \in BOOLEAN :
         LET entries == get_sheet_data(mainpy.values)
         IN  mainpy' = [mainpy EXCEPT !.url_entries = entries,
                                      !.read = IF read_ok THEN "ok" ELSE "failed",
                                      !.pc = IF entries = <<>> THEN "done" ELSE "loop"]
    /\ UNCHANGED M_others

\* url_entries = get_sheet_data(...): [] when the read raised; main
\* returns at once when the list is empty.
M_get_sheet_data ==
    /\ mainpy.pc = "start"
    /\ \E read_ok \in BOOLEAN :
         LET entries == IF read_ok THEN get_sheet_data(mainpy.values) ELSE <<>>
         IN  mainpy' = [mainpy EXCEPT !.url_entries = entries,
                                      !.read = IF read_ok THEN "ok" ELSE "failed",
                                      !.pc = IF entries = <<>> THEN "done" ELSE "loop"]
    /\ UNCHANGED M_others

\* `for row_index, url in url_entries`, with its `if not url.strip()`.
M_loop ==
    /\ mainpy.pc = "loop"
    /\ IF mainpy.k = Len(mainpy.url_entries)
       THEN mainpy' = [mainpy EXCEPT !.pc = "done"]
       ELSE LET e == mainpy.url_entries[mainpy.k + 1]
            IN  IF ~Truthy(Strip(e[2]))
                THEN mainpy' = [mainpy EXCEPT !.k = @ + 1]
                ELSE mainpy' = [mainpy EXCEPT !.k = @ + 1, !.pc = "launch",
                                              !.attempt = 1, !.attempts = <<>>,
                                              !.fallbacks = 0,
                                              !.began = Append(@, e[1])]
    /\ UNCHANGED M_others

\* The end of one pass of `for attempt in range(1, MAX_RETRIES + 1)` that
\* did not return: the next attempt, or the fallback after the last.
M_next_attempt(s) ==
    IF s.attempt = MAX_RETRIES
    THEN [s EXCEPT !.pc = "fallback_in_fetch"]
    ELSE [s EXCEPT !.pc = "launch", !.attempt = @ + 1]

\* async_playwright() and p.chromium.launch(): the browser is open, or an
\* exception ends the attempt.  The `attempts` field lists how each
\* browser attempt for the current URL ended.
M_launch ==
    /\ mainpy.pc = "launch"
    /\ \E ok \in BOOLEAN :
         mainpy' = IF ok THEN [mainpy EXCEPT !.pc = "goto", !.browser = TRUE,
                                             !.open_browsers = @ + 1]
                   ELSE M_next_attempt([mainpy EXCEPT
                                          !.attempts = Append(@, "launch_error")])
    /\ UNCHANGED M_others

\* M_page when a navigation timeout leaves the browser of the attempt open.
M_page_timeout_leaves_browser_open ==
    /\ mainpy.pc = "goto"
    /\ \/ \E outcome \in {"timeout", "error", "captcha"} :
            mainpy' = M_next_attempt([mainpy EXCEPT
                                                    !.browser = (outcome = "timeout"),
                                                    !.open_browsers =
                                                        IF outcome = "timeout" THEN @ ELSE @ - 1,
                                                    !.attempts = Append(@, outcome)])
       \/ \E page \in M_Pages :
            mainpy' = [mainpy EXCEPT !.browser = FALSE, !.pc = "fetched",
                                     !.open_browsers = @ - 1,
                                     !.attempts = Append(@, "content"),
                                     !.html = [kind |-> "content", anchors |-> page]]
    /\ UNCHANGED M_others

\* page.goto ... page.content(), browser.close() and the CAPTCHA test.  A
\* timeout or error leaves the `async with` block, which stops Playwright
\* and its browser.
M_page ==
    /\ mainpy.pc = "goto"
    /\ \/ \E outcome \in {"timeout", "error", "captcha"} :
            mainpy' = M_next_attempt([mainpy EXCEPT !.browser = FALSE,
                                                    !.open_browsers = @ - 1,
                                                    !.attempts = Append(@, outcome)])
       \/ \E page \in M_Pages :
            mainpy' = [mainpy EXCEPT !.browser = FALSE, !.pc = "fetched",
                                     !.open_browsers = @ - 1,
                                     !.attempts = Append(@, "content"),
                                     !.html = [kind |-> "content", anchors |-> page]]
    /\ UNCHANGED M_others

\* The list fetch_data_browserless_graphql returns: "text\nhref" strings
\* of the person links, [] when there are none or the request failed.
M_FallbackResults == { <<>>, << <<"b", " ", "a", "\n", "https://www.truepeoplesearch.com/find/person/", "p", "1">> >> }

\* `return fetch_data_browserless_graphql(url)` at the end of
\* fetch_truepeoplesearch_data.
M_fallback_in_fetch ==
    /\ mainpy.pc = "fallback_in_fetch"
    /\ \E links \in M_FallbackResults :
         mainpy' = [mainpy EXCEPT !.pc = "fetched", !.fallbacks = @ + 1,
                                  !.html = [kind |-> "links", links |-> links]]
    /\ UNCHANGED M_others

\* bool(html) for what fetch_truepeoplesearch_data returned.
M_html_truthy(html) ==
    IF html.kind = "links" THEN html.links # <<>> ELSE TRUE

\* `if not html: ... else: extracted = extract_links(html)` and the
\* `if not extracted: continue` after it.  BeautifulSoup given a list
\* instead of markup either raises or yields no anchors.  The
\* `extract_calls` field lists what each call of extract_links was given.
M_after_fetch ==
    /\ mainpy.pc = "fetched"
    /\ IF ~M_html_truthy(mainpy.html)
       THEN mainpy' = [mainpy EXCEPT !.pc = "fallback_in_main"]
       ELSE IF mainpy.html.kind = "links"
       THEN \E raises \in BOOLEAN :
              mainpy' = [mainpy EXCEPT !.extracted = <<>>,
                                       !.extract_calls = Append(@, mainpy.html.kind),
                                       !.pc = IF raises THEN "crashed" ELSE "loop"]
       ELSE LET extracted == extract_links(mainpy.html.anchors)
            IN  mainpy' = [mainpy EXCEPT !.extracted = extracted,
                                         !.extract_calls = Append(@, mainpy.html.kind),
                                         !.pc = IF extracted = <<>> THEN "loop" ELSE "refs"]
    /\ UNCHANGED M_others

\* main's own call of fetch_data_browserless_graphql; with links,
\* extracted = links and the row goes on to the reference names.
M_fallback_in_main ==
    /\ mainpy.pc = "fallback_in_main"
    /\ \E links \in M_FallbackResults :
         mainpy' = [mainpy EXCEPT !.fallbacks = @ + 1,
                                  !.html = [kind |-> "links", links |-> links],
                                  !.extracted = links,
                                  !.pc = IF links = <<>> THEN "loop" ELSE "refs"]
    /\ UNCHANGED M_others

\* match_entries when extracted holds the fallback's strings: `"link" in
\* entry and "text" in entry` are substring tests, false for these strings.
M_match(extracted, kind, refs) ==
    IF kind = "links" THEN <<>> ELSE match_entries(extracted, refs)

\* ref_names = extract_reference_names(SHEET_ID, row_index); the call is
\* not inside any try.  Then match_entries and the branch on its result.
M_refs ==
    /\ mainpy.pc = "refs"
    /\ \/ mainpy' = [mainpy EXCEPT !.pc = "crashed",
                                   !.failed_calls = Append(@, <<"get", M_row_index>>)]
       \/ \E vals \in M_RefRows :
            LET refs    == extract_reference_names(vals)
                matched == M_match(mainpy.extracted, mainpy.html.kind, refs)
            IN  mainpy' = [mainpy EXCEPT
                             !.ref_reads = Append(@, M_row_index),
                             !.ref_names = refs,
                             !.matched = IF refs = <<>> THEN <<>> ELSE matched,
                             !.pc = IF refs # <<>> /\ matched # <<>> THEN "log" ELSE "loop"]
    /\ UNCHANGED M_others

\* log_matches_to_sheet(SHEET_ID, row_index, matched_results): the update
\* succeeds, or raises out of main.  The `writes` field keeps, for each
\* update made, the values sent and the entries extracted for that row.
M_log ==
    /\ mainpy.pc = "log"
    /\ LET values == log_values(mainpy.matched)
       IN  \E ok \in BOOLEAN :
             mainpy' = IF ok
                       THEN [mainpy EXCEPT
                               !.cells = update_sheet_data(@, M_row_index, values, 0),
                               !.logged = Append(@, M_row_index),
                               !.writes = Append(@, [row_index |-> M_row_index,
                                                     values    |-> values,
                                                     extracted |-> mainpy.extracted]),
                               !.pc = "loop"]
                       ELSE [mainpy EXCEPT
                               !.pc = "crashed",
                               !.failed_calls = Append(@, <<"update", M_row_index>>)]
    /\ UNCHANGED M_others

M_Next ==
    \/ M_get_sheet_data
    \/ M_loop
    \/ M_launch
    \/ M_page
    \/ M_fallback_in_fetch
    \/ M_after_fetch
    \/ M_fallback_in_main
    \/ M_refs
    \/ M_log

M_Init ==
    /\ mainpy \in M_InitStates
    /\ pb4 = Idle /\ skipbot = Idle /\ rapid = Idle
    /\ pb1 = Idle /\ hendry = Idle /\ lee03 = Idle /\ rf = Idle
    /\ pb2 = Idle /\ wr = Idle

SpecMain == M_Init /\ [][M_Next]_vars

\* C3: the matched results of an input read from sheet row r are written
\* into row r: every cell main.py has written lies in a row for which
\* log_matches_to_sheet was called.
C3_WrittenInRowOfInput ==
    \A c \in DOMAIN mainpy.cells :
        \E j \in 1..Len(mainpy.logged) : mainpy.logged[j] = c[1]

\* The cell at position p (from 1) of the column read from R2:R is not blank.
M_NonBlankAt(p) ==
    /\ mainpy.values[p] # <<>>
    /\ Strip(mainpy.values[p][1]) # <<>>

\* C4: after a successful read, url_entries holds exactly the non-blank
\* cells of the column, top to bottom, each as (sheet row, stripped text)
\* where the sheet row is the cell's position in the range + 2 (first
\* position 0); blank cells are left out and shift no later row number.
C4_RowNumbersPreserved ==
    mainpy.read = "ok" =>
        LET e == mainpy.url_entries
            v == mainpy.values
        IN  /\ \A j \in 1..Len(e) :
                   /\ e[j][1] - 1 \in 1..Len(v)
                   /\ M_NonBlankAt(e[j][1] - 1)
                   /\ e[j][2] = Strip(v[e[j][1] - 1][1])
            /\ \A j \in 1..Len(e) - 1 : e[j][1] < e[j + 1][1]
            /\ \A p \in 1..Len(v) :
                   M_NonBlankAt(p) => \E j \in 1..Len(e) : e[j][1] = p + 1

\* C4 witness: a whitespace-only cell in R2, a key in R3; the key is
\* returned with row number 3.
C4_Witness ==
    /\ mainpy.read = "ok"
    /\ mainpy.values = << << <<" ">> >>, << <<" ", "b">> >> >>
    /\ mainpy.url_entries = << <<3, <<"b">>>> >>

\* The rows of url_entries, in order.
M_EntryRows == [j \in 1..Len(mainpy.url_entries) |-> mainpy.url_entries[j][1]]

\* C9: a failed Sheets API call made while handling a row does not abort
\* the batch: when the run has ended, every row of url_entries was begun.
C9_SheetsFailureDoesNotAbort ==
    (mainpy.pc \in {"done", "crashed"} /\ mainpy.failed_calls # <<>>) =>
        mainpy.began = M_EntryRows

(***************************************************************************)
(* rapid_API.py: URLs from column R; one pyppeteer browser per URL; the    *)
(* extracted href/text pairs of a URL are written with one batchUpdate.    *)
(***************************************************************************)

\* retries=3 of fetch_page_html
R_RETRIES == 3

\* Largest number of page.goto calls followed for one URL.
MaxGotos == 4

\* enumerate(urls, start=2)
R_START == 2

\* col_index = 19 + j
R_BASE_COL == 19

Letters == <<"A", "B", "C", "D", "E", "F", "G", "H", "I", "J", "K", "L", "M",
             "N", "O", "P", "Q", "R", "S", "T", "U", "V", "W", "X", "Y", "Z">>

\* The while loop of get_column_name.
RECURSIVE get_column_name_loop(_, _)
get_column_name_loop(index, column_name) ==
    IF index < 0 THEN column_name
    ELSE get_column_name_loop((index \div 26) - 1,
                              <<Letters[(index % 26) + 1]>> \o column_name)

\* get_column_name without the carry into a second letter.
get_column_name_single_letter(index) == <<Letters[(index % 26) + 1]>>

get_column_name(index) == get_column_name_loop(index, <<>>)

\* urls = [val[0] for val in result.get('values', []) if val and val[0]]
RECURSIVE R_urls(_)
R_urls(values) ==
    IF values = <<>> THEN <<>>
    ELSE (IF Head(values) # <<>> /\ Truthy(Head(values)[1])
          THEN <<Head(values)[1]>> ELSE <<>>) \o R_urls(Tail(values))

\* The sheet rows the kept cells were read from: the cell at position p
\* (from 0) of R2:R is in row p + 2.
RECURSIVE R_source_rows(_, _)
R_source_rows(values, p) ==
    IF p = Len(values) THEN <<>>
    ELSE (IF values[p + 1] # <<>> /\ values[p + 1][1] # <<>>
          THEN <<p + 2>> ELSE <<>>) \o R_source_rows(values, p + 1)

\* The href/text pairs extract_data finds on a page (texts as in the DOM).
R_PagePairs ==
    { <<>>,
      << [href |-> <<"h", "1">>, text |-> <<" ", "t", "1">>] >>,
      << [href |-> <<"h", "1">>, text |-> <<" ", "t", "1">>],
         [href |-> <<"h", "2">>, text |-> <<"t", "2">>],
         [href |-> <<"h", "3">>, text |-> <<"t", "3", " ">>],
         [href |-> <<"h", "4">>, text |-> <<"t", "4">>] >> }

\* extract_data: {'href': href, 'text': text.strip()} for every pair.
extract_data(pairs) ==
    [j \in 1..Len(pairs) |-> [href |-> pairs[j].href, text |-> Strip(pairs[j].text)]]

\* row_data: href then text of every item, in order.
RECURSIVE R_row_data(_)
R_row_data(extracted) ==
    IF extracted = <<>> THEN <<>>
    ELSE <<Head(extracted).href, Head(extracted).text>> \o R_row_data(Tail(extracted))

\* batch_update_sheet on success: data[j] is written to the cell in column
\* get_column_name(19 + j) of row row_number.
RECURSIVE batch_update_sheet(_, _, _, _)
batch_update_sheet(cells, data, row_number, j) ==
    IF j = Len(data) THEN cells
    ELSE batch_update_sheet(
            Put(cells, <<row_number, get_column_name(R_BASE_COL + j)>>, data[j + 1]),
            data, row_number, j + 1)

R_others == <<pb4, skipbot, mainpy, pb1, hendry, lee03, rf, pb2, wr>>

R_Start(col) ==
    [pc |-> "start", values |-> col, urls |-> <<>>, source_rows |-> <<>>,
     n |-> 0, attempt |-> 0, gotos |-> 0, browser |-> FALSE, result |-> "none",
     row_data |-> <<>>, updates |-> <<>>, cells |-> NoCells]

R_InitStates == { R_Start(col) : col \in Columns }

\* index of `for index, url in enumerate(urls, start=2)`
R_index == R_START + rapid.n - 1

\* main: the read of R2:R and the list of URLs; a failed read returns.
R_read ==
    /\ rapid.pc = "start"
    /\ \E ok \in BOOLEAN :
         rapid' = IF ok
                  THEN [rapid EXCEPT !.pc = "loop", !.urls = R_urls(rapid.values),
                                     !.source_rows = R_source_rows(rapid.values, 0)]
                  ELSE [rapid EXCEPT !.pc = "done", !.result = "read_failed"]
    /\ UNCHANGED R_others

R_loop ==
    /\ rapid.pc = "loop"
    /\ rapid' = IF rapid.n = Len(rapid.urls)
                THEN [rapid EXCEPT !.pc = "done"]
                ELSE [rapid EXCEPT !.n = @ + 1, !.pc = "launch"]
    /\ UNCHANGED R_others

\* fetch_page_html before its try block: launch, newPage, setUserAgent.
\* None of the three is guarded: launch raising leaves no browser, while
\* newPage or setUserAgent raising leaves main with the browser open.
R_launch ==
    /\ rapid.pc = "launch"
    /\ \E outcome \in {"ok", "launch_raised", "page_setup_raised"} :
         rapid' = IF outcome = "ok"
                  THEN [rapid EXCEPT !.pc = "goto", !.browser = TRUE,
                                     !.attempt = 0, !.gotos = 0, !.result = "none"]
                  ELSE IF outcome = "launch_raised"
                  THEN [rapid EXCEPT !.pc = "crashed"]
                  ELSE [rapid EXCEPT !.pc = "crashed", !.browser = TRUE]
    /\ UNCHANGED R_others

\* One pass of `while attempt < retries`.  A loaded page breaks out of the
\* loop.  asyncio.TimeoutError is handled by sleeping, attempt unchanged.
\* For any other exception the second except clause is evaluated:
\* asyncio has no attribute pyppeteer, the AttributeError reaches the outer
\* `except Exception`, which closes the browser and returns (None, None).
R_goto ==
    /\ rapid.pc = "goto"
    /\ rapid.attempt < R_RETRIES
    /\ \/ rapid' = [rapid EXCEPT !.gotos = @ + 1, !.pc = "page", !.result = "loaded"]
       \/ /\ rapid.gotos < MaxGotos
          /\ rapid' = [rapid EXCEPT !.gotos = @ + 1, !.result = "timeout"]
       \/ rapid' = [rapid EXCEPT !.gotos = @ + 1, !.browser = FALSE,
                                 !.pc = "loop", !.result = "error"]
    /\ UNCHANGED R_others

\* main with a page: the element query (not guarded by any try), the
\* optional simulated click, extract_data, and the branch on its result.
R_page ==
    /\ rapid.pc = "page"
    /\ \/ rapid' = [rapid EXCEPT !.pc = "crashed"]
       \/ \E pairs \in R_PagePairs :
            LET extracted == extract_data(pairs)
            IN  rapid' = IF extracted # <<>>
                         THEN [rapid EXCEPT !.pc = "update",
                                            !.row_data = R_row_data(extracted)]
                         ELSE [rapid EXCEPT !.pc = "loop", !.browser = FALSE,
                                            !.row_data = <<>>]
    /\ UNCHANGED R_others

\* try: batch_update_sheet(credentials, row_data, index) except: print;
\* then browser.close().
R_update ==
    /\ rapid.pc = "update"
    /\ \E ok \in BOOLEAN :
         rapid' = [rapid EXCEPT
                     !.cells = IF ok THEN batch_update_sheet(@, rapid.row_data, R_index, 0)
                               ELSE @,
                     !.updates = Append(@, [row_number |-> R_index,
                                            source_row |-> rapid.source_rows[rapid.n],
                                            data |-> rapid.row_data,
                                            ok |-> ok]),
                     !.browser = FALSE,
                     !.pc = "loop"]
    /\ UNCHANGED R_others

R_Next ==
    \/ R_read
    \/ R_loop
    \/ R_launch
    \/ R_goto
    \/ R_page
    \/ R_update

R_Init ==
    /\ rapid \in R_InitStates
    /\ pb4 = Idle /\ skipbot = Idle /\ mainpy = Idle
    /\ pb1 = Idle /\ hendry = Idle /\ lee03 = Idle /\ rf = Idle
    /\ pb2 = Idle /\ wr = Idle

SpecRapid == R_Init /\ [][R_Next]_vars

\* C5: the row number passed to batch_update_sheet for a URL is the sheet
\* row the URL was read from.
C5_RowNumberIsSourceRow ==
    \A j \in 1..Len(rapid.updates) :
        rapid.updates[j].row_number = rapid.updates[j].source_row

(***************************************************************************)
(* palmBayPA1.py: one Firefox session for the whole batch; rows with a     *)
(* key in column A and nothing in column G are handed to process_row,      *)
(* which catches every exception of its row.                               *)
(***************************************************************************)

\* Column A as read from A2:A, and column G as read from G2:G.
PB1_SiteColumns == SeqsUpTo({ <<>>, << <<" ">> >>, << <<"a">> >> }, MaxRows)

PB1_CheckColumns == SeqsUpTo({ <<>>, << <<" ">> >>, << <<"x">> >> }, MaxRows)

\* enumerate(zip(site_data, check_data), start=2)
PB1_START == 2

\* The cells process_row updates, in order.
PB1_Cols == <<"C", "D", "E", "F">>

\* The text of the k-th field element of the result page.
PB1_FieldText(k) == <<"v", PB1_Cols[k]>>

\* PB1_pad when check_data is left as the sheet returned it.
PB1_pad_omitted(check_data, site_data) == check_data

\* `while len(check_data) < len(site_data): check_data.append([])`
RECURSIVE PB1_pad(_, _)
PB1_pad(check_data, site_data) ==
    IF Len(check_data) < Len(site_data)
    THEN PB1_pad(Append(check_data, <<>>), site_data)
    ELSE check_data

PB1_Row == PB1_START + pb1.idx - 1

PB1_others == <<pb4, skipbot, mainpy, rapid, hendry, lee03, rf, pb2, wr>>

PB1_Start(sites, checks) ==
    [pc |-> "open", site_data |-> sites, checks_read |-> checks,
     check_data |-> PB1_pad(checks, sites),
     idx |-> 0, k |-> 0, driver |-> FALSE, quits |-> 0, last |-> "none",
     invoked |-> <<>>, timeouts |-> <<>>, navigated |-> <<>>, typed |-> <<>>,
     page |-> "blank", updates |-> <<>>, cells |-> NoCells]

\* fetch_data_and_update_sheet up to the browser start: both columns are
\* read and check_data is padded; a failed read raises out of the function.
PB1_InitStates ==
    { PB1_Start(a, g) : a \in PB1_SiteColumns, g \in PB1_CheckColumns }
        \cup { [PB1_Start(<<>>, <<>>) EXCEPT !.pc = "crashed"] }

\* driver = webdriver.Firefox(...), before the try block.
PB1_open ==
    /\ pb1.pc = "open"
    /\ \E ok \in BOOLEAN :
         pb1' = IF ok THEN [pb1 EXCEPT !.pc = "loop", !.driver = TRUE]
                ELSE [pb1 EXCEPT !.pc = "crashed"]
    /\ UNCHANGED PB1_others

\* zip(site_data, check_data) stops at the shorter list.
PB1_ZipLen == IF Len(pb1.site_data) <= Len(pb1.check_data)
              THEN Len(pb1.site_data) ELSE Len(pb1.check_data)

\* site and check_value of the row at position p (from 1) of the zip.
PB1_site(p) ==
    IF pb1.site_data[p] # <<>> THEN Strip(pb1.site_data[p][1]) ELSE NoneStr

PB1_check_value(p) ==
    IF pb1.check_data[p] # <<>> THEN Strip(pb1.check_data[p][1]) ELSE <<>>

\* One step of the for loop: the two `continue` tests, else process_row.
\* After the last row control reaches the finally block.
PB1_loop ==
    /\ pb1.pc = "loop"
    /\ IF pb1.idx = PB1_ZipLen
       THEN pb1' = [pb1 EXCEPT !.pc = "finally"]
       ELSE IF ~Truthy(PB1_site(pb1.idx + 1)) \/ Truthy(PB1_check_value(pb1.idx + 1))
       THEN pb1' = [pb1 EXCEPT !.idx = @ + 1, !.last = "skipped"]
       ELSE pb1' = [pb1 EXCEPT !.idx = @ + 1, !.pc = "navigate", !.last = "running",
                               !.invoked = Append(@, PB1_START + pb1.idx)]
    /\ UNCHANGED PB1_others

\* `except Exception as e: print(...)` of process_row: the function
\* returns normally to the loop.
PB1_row_failed(s, why) == [s EXCEPT !.pc = "loop", !.last = why]

\* process_row: driver.get of the search page, the first statement of
\* its try block.  The `page` field is the page the shared browser shows.
PB1_navigate ==
    /\ pb1.pc = "navigate"
    /\ \E ok \in BOOLEAN :
         pb1' = IF ok THEN [pb1 EXCEPT !.pc = "search", !.page = "root",
                                       !.navigated = Append(@, PB1_Row)]
                ELSE PB1_row_failed([pb1 EXCEPT !.page = "error"], "navigate_failed")
    /\ UNCHANGED PB1_others

\* process_row: wait for the search input, send_keys(site, RETURN).
PB1_search ==
    /\ pb1.pc = "search"
    /\ \E ok \in BOOLEAN :
         pb1' = IF ok THEN [pb1 EXCEPT !.pc = "wait_result", !.page = "results",
                                       !.typed = Append(@, PB1_Row)]
                ELSE PB1_row_failed(pb1, "search_failed")
    /\ UNCHANGED PB1_others

\* PB1_result_timeout with the TimeoutException not caught by process_row:
\* it leaves the for loop through the finally block of the caller.
PB1_result_timeout_propagates(s) ==
    [s EXCEPT !.timeouts = Append(@, PB1_START + s.idx - 1), !.pc = "finally",
              !.last = "timeout"]

\* The timeout of the wait for the results marker, as process_row handles it.
PB1_result_timeout(s) ==
    PB1_row_failed([s EXCEPT !.timeouts = Append(@, PB1_START + s.idx - 1)], "timeout")

\* process_row: WebDriverWait(driver, 60) for the results marker.
PB1_wait_result ==
    /\ pb1.pc = "wait_result"
    /\ \E loaded \in BOOLEAN :
         pb1' = IF loaded THEN [pb1 EXCEPT !.pc = "extract"]
                ELSE PB1_result_timeout(pb1)
    /\ UNCHANGED PB1_others

\* process_row: the four field reads (find_element, one bounded wait) and
\* the `updates` list of (cell, value) pairs built from them.
PB1_extract ==
    /\ pb1.pc = "extract"
    /\ \E ok \in BOOLEAN :
         pb1' = IF ok
                THEN [pb1 EXCEPT
                        !.pc = "write", !.k = 1,
                        !.updates = [j \in 1..Len(PB1_Cols) |->
                                        [cell |-> <<PB1_Row, PB1_Cols[j]>>,
                                         val  |-> PB1_FieldText(j)]]]
                ELSE PB1_row_failed(pb1, "extract_failed")
    /\ UNCHANGED PB1_others

\* process_row: `for rng, val in updates`.  The caller passes the service
\* root as sheet_service, which has no values(): the first pass raises
\* AttributeError before any update is sent, and the except of
\* process_row ends the row with no cell written.
PB1_write ==
    /\ pb1.pc = "write"
    /\ pb1' = PB1_row_failed(pb1, "write_failed")
    /\ UNCHANGED PB1_others

\* finally: driver.quit()
PB1_finally ==
    /\ pb1.pc = "finally"
    /\ pb1' = [pb1 EXCEPT !.pc = "done", !.driver = FALSE, !.quits = @ + 1]
    /\ UNCHANGED PB1_others

PB1_Next ==
    \/ PB1_open
    \/ PB1_loop
    \/ PB1_navigate
    \/ PB1_search
    \/ PB1_wait_result
    \/ PB1_extract
    \/ PB1_write
    \/ PB1_finally

PB1_Init ==
    /\ pb1 \in PB1_InitStates
    /\ pb4 = Idle /\ skipbot = Idle /\ mainpy = Idle
    /\ rapid = Idle /\ hendry = Idle /\ lee03 = Idle /\ rf = Idle
    /\ pb2 = Idle /\ wr = Idle

SpecPB1 == PB1_Init /\ [][PB1_Next]_vars

\* Row at position p of the zip is one the loop hands to process_row.
PB1_Eligible(p) == Truthy(PB1_site(p)) /\ ~Truthy(PB1_check_value(p))

\* C7: a row whose wait for the results marker timed out has no cell
\* written; no row is handed to process_row twice; right after the timeout
\* of row i the loop stands exactly past row i; and when the loop has
\* ended every eligible row, also those after a timed-out row, was handed
\* to process_row.
C7_TimeoutWritesNothingAndAdvancesOnce ==
    /\ \A j \in 1..Len(pb1.timeouts) :
          \A c \in DOMAIN pb1.cells : c[1] # pb1.timeouts[j]
    /\ \A a, b \in 1..Len(pb1.invoked) : a < b => pb1.invoked[a] < pb1.invoked[b]
    /\ (pb1.pc = "loop" /\ pb1.last = "timeout" /\ pb1.timeouts # <<>>) =>
          pb1.timeouts[Len(pb1.timeouts)] = PB1_Row
    /\ pb1.pc \in {"finally", "done"} =>
          /\ pb1.idx = PB1_ZipLen
          /\ \A p \in 1..PB1_ZipLen :
                PB1_Eligible(p) <=> \E j \in 1..Len(pb1.invoked) :
                                       pb1.invoked[j] = PB1_START + p - 1

\* C7 witness: row 2 timed out on the results marker, row 3 was then
\* processed up to its update step, and the loop has ended.
C7_Witness ==
    /\ pb1.pc = "done"
    /\ pb1.timeouts = <<PB1_START>>
    /\ pb1.invoked = <<PB1_START, PB1_START + 1>>
    /\ pb1.last = "write_failed"
    /\ pb1.updates # <<>> /\ pb1.updates[1].cell = <<PB1_START + 1, "C">>

(***************************************************************************)
(* hendryPA.py: one Chrome session for the whole batch; each of the five   *)
(* fields of a row is read and written to its cell before the next field   *)
(* is looked for.                                                          *)
(***************************************************************************)

\* Row of `enumerate(sheet_data)` position i (from 0): i + 2.
H_START == 2

\* The cells of a row, in the order the code writes them.
H_Cols == <<"Z", "AA", "AB", "AC", "AD">>

\* The text of the k-th field element.
H_FieldText(k) == <<"w", H_Cols[k]>>

H_Row == H_START + hendry.idx - 1

H_others == <<pb4, skipbot, mainpy, rapid, pb1, lee03, rf, pb2, wr>>

H_Start(col) ==
    [pc |-> "open", sheet_data |-> col, idx |-> 0, k |-> 0, driver |-> FALSE,
     navigated |-> <<>>, typed |-> <<>>, missing |-> <<>>, written |-> <<>>,
     warning |-> "none", page |-> "blank", cells |-> NoCells]

\* fetch_data_and_update_sheet up to the browser start: column G is read;
\* a failed read raises out of the function.
H_InitStates ==
    { H_Start(col) : col \in Columns } \cup { [H_Start(<<>>) EXCEPT !.pc = "crashed"] }

\* driver = setup_undetected_chrome_driver(); driver.get(URL).  Neither is
\* guarded: the constructor raising leaves no session, the first
\* driver.get raising ends the script with the session open.
H_open ==
    /\ hendry.pc = "open"
    /\ \E outcome \in {"ok", "create_raised", "get_raised"} :
         hendry' = IF outcome = "ok"
                   THEN [hendry EXCEPT !.pc = "loop", !.driver = TRUE, !.page = "root"]
                   ELSE IF outcome = "create_raised"
                   THEN [hendry EXCEPT !.pc = "crashed"]
                   ELSE [hendry EXCEPT !.pc = "crashed", !.driver = TRUE,
                                       !.page = "error"]
    /\ UNCHANGED H_others

\* One step of `for i, row in enumerate(sheet_data)` with the test
\* `if not site or not site.strip(): continue`; after the last row the
\* code reaches driver.quit().
H_loop ==
    /\ hendry.pc = "loop"
    /\ IF hendry.idx = Len(hendry.sheet_data)
       THEN hendry' = [hendry EXCEPT !.pc = "quit"]
       ELSE LET row  == hendry.sheet_data[hendry.idx + 1]
                site == IF row # <<>> THEN row[1] ELSE NoneStr
            IN  IF ~Truthy(site) \/ ~Truthy(Strip(site))
                THEN hendry' = [hendry EXCEPT !.idx = @ + 1]
                ELSE hendry' = [hendry EXCEPT !.idx = @ + 1, !.pc = "navigate"]
    /\ UNCHANGED H_others

\* The outer `except Exception` of the row, and the `continue` of the
\* input step: the loop goes on with the next row.
H_row_failed(s) == [s EXCEPT !.pc = "loop"]

\* H_navigate when the rows rely on the driver.get(URL) made once before
\* the loop: the row starts on whatever page the previous row left.
H_navigate_only_before_loop ==
    /\ hendry.pc = "navigate"
    /\ hendry' = [hendry EXCEPT !.pc = "warning"]
    /\ UNCHANGED H_others

\* driver.get(URL) at the start of the row's try block.  The `page` field
\* is the page the shared browser shows: the search root after a get that
\* returned, the results after a submitted search.
H_navigate ==
    /\ hendry.pc = "navigate"
    /\ \E ok \in BOOLEAN :
         hendry' = IF ok THEN [hendry EXCEPT !.pc = "warning", !.page = "root",
                                             !.navigated = Append(@, H_Row)]
                   ELSE H_row_failed([hendry EXCEPT !.page = "error"])
    /\ UNCHANGED H_others

\* H_warning when a button that never appears ends the row.
H_warning_absent_fails_row ==
    /\ hendry.pc = "warning"
    /\ \E outcome \in {"dismissed", "absent", "click_raised"} :
         hendry' = IF outcome = "absent"
                   THEN H_row_failed([hendry EXCEPT !.warning = outcome])
                   ELSE [hendry EXCEPT !.pc = "input", !.warning = outcome]
    /\ UNCHANGED H_others

\* The warning button: a 5 s wait, mouse move and click in a try whose
\* except only prints.
H_warning ==
    /\ hendry.pc = "warning"
    /\ \E outcome \in {"dismissed", "absent", "click_raised"} :
         hendry' = [hendry EXCEPT !.pc = "input", !.warning = outcome]
    /\ UNCHANGED H_others

\* The parcel input: wait, send_keys(site), send_keys(RETURN); on any
\* exception print and `continue`.
H_input ==
    /\ hendry.pc = "input"
    /\ \E ok \in BOOLEAN :
         hendry' = IF ok THEN [hendry EXCEPT !.pc = "field", !.k = 1,
                                             !.page = "results",
                                             !.typed = Append(@, H_Row)]
                   ELSE H_row_failed(hendry)
    /\ UNCHANGED H_others

\* H_field_missing with the missing field skipped instead of ending the
\* row: the row goes on with the next field.
H_field_missing_skips(s) ==
    [s EXCEPT !.missing = Append(@, <<H_START + s.idx - 1, s.k>>),
              !.k = IF s.k = 5 THEN @ ELSE @ + 1,
              !.pc = IF s.k = 5 THEN "loop" ELSE "field"]

\* The k-th field element never appears: the wait (fields 1, 2, 4) or
\* find_element (fields 3, 5) raises, and the outer except ends the row.
H_field_missing(s) ==
    H_row_failed([s EXCEPT !.missing = Append(@, <<H_START + s.idx - 1, s.k>>)])

\* The k-th field element is looked for.
H_field ==
    /\ hendry.pc = "field"
    /\ \E present \in BOOLEAN :
         hendry' = IF present THEN [hendry EXCEPT !.pc = "write"]
                   ELSE H_field_missing(hendry)
    /\ UNCHANGED H_others

\* H_write with the range of the update built from i + 1 instead of i + 2.
H_write_row_off_by_one ==
    /\ hendry.pc = "write"
    /\ \E ok \in BOOLEAN :
         hendry' =
            IF ~ok THEN H_row_failed(hendry)
            ELSE [hendry EXCEPT
                    !.cells = Put(@, <<H_Row - 1, H_Cols[hendry.k]>>, H_FieldText(hendry.k)),
                    !.written = Append(@, <<H_Row - 1, H_Cols[hendry.k]>>),
                    !.k = @ + 1,
                    !.pc = IF hendry.k = 5 THEN "loop" ELSE "field"]
    /\ UNCHANGED H_others

\* The update of the k-th cell with the text just read; after the fifth
\* the try block ends.
H_write ==
    /\ hendry.pc = "write"
    /\ \E ok \in BOOLEAN :
         hendry' =
            IF ~ok THEN H_row_failed(hendry)
            ELSE [hendry EXCEPT
                    !.cells = Put(@, <<H_Row, H_Cols[hendry.k]>>, H_FieldText(hendry.k)),
                    !.written = Append(@, <<H_Row, H_Cols[hendry.k]>>),
                    !.k = @ + 1,
                    !.pc = IF hendry.k = 5 THEN "loop" ELSE "field"]
    /\ UNCHANGED H_others

\* driver.quit() after the loop.
H_quit ==
    /\ hendry.pc = "quit"
    /\ hendry' = [hendry EXCEPT !.pc = "done", !.driver = FALSE]
    /\ UNCHANGED H_others

H_Next ==
    \/ H_open
    \/ H_loop
    \/ H_navigate
    \/ H_warning
    \/ H_input
    \/ H_field
    \/ H_write
    \/ H_quit

H_Init ==
    /\ hendry \in H_InitStates
    /\ pb4 = Idle /\ skipbot = Idle /\ mainpy = Idle
    /\ rapid = Idle /\ pb1 = Idle /\ lee03 = Idle /\ rf = Idle
    /\ pb2 = Idle /\ wr = Idle

SpecHendry == H_Init /\ [][H_Next]_vars

\* The columns of row r that hold a written cell.
H_ColsWritten(r) == { c[2] : c \in { d \in DOMAIN hendry.cells : d[1] = r } }

\* C8 as claimed: a row one of whose five field elements never appeared
\* has no cell written.
C8_AllOrNothing ==
    \A j \in 1..Len(hendry.missing) : H_ColsWritten(hendry.missing[j][1]) = {}

\* C8 as amended: when the k-th field element of a row never appears, the
\* cells written for the row are exactly those of the k - 1 fields before
\* it; the cell of the k-th field and of every later field is not written.
C8_MissingFieldStopsRowKeepsEarlier ==
    \A j \in 1..Len(hendry.missing) :
        H_ColsWritten(hendry.missing[j][1]) =
            { H_Cols[n] : n \in 1..(hendry.missing[j][2] - 1) }

\* C8 witness: the third field (owner address) of row 2 never appeared;
\* Z2 and AA2 are written.
C8_Witness ==
    /\ hendry.missing = << <<H_START, 3>> >>
    /\ DOMAIN hendry.cells = { <<H_START, "Z">>, <<H_START, "AA">> }
    /\ hendry.pc = "loop"

(***************************************************************************)
(* leePA_03.py: the module-level request made through                      *)
(* make_request_with_retries, then fetch_data_and_update_sheet with one    *)
(* Firefox session per row, quit in a finally block.                       *)
(***************************************************************************)

\* retries=3 of make_request_with_retries
L_RETRIES == 3

\* enumerate(sheet_data, start=5001)
L_START == 5001

\* The cells of a row, in the order the code writes them.
L_Cols == <<"C", "D", "E", "F", "S">>

\* The text of the k-th field element of the details page.
L_FieldText(k) == <<"t", L_Cols[k]>>

L_Row == L_START + lee03.idx - 1

L_others == <<pb4, skipbot, mainpy, rapid, pb1, hendry, rf, pb2, wr>>

L_Start(col) ==
    [pc |-> "request", attempt |-> 0, requests |-> 0, protocol_errors |-> 0,
     response |-> "none", outcomes |-> <<>>, returned |-> 0,
     sheet |-> col, read |-> "pending", sheet_data |-> <<>>, idx |-> 0,
     k |-> 0, driver |-> FALSE, created |-> <<>>, create_failed |-> <<>>,
     quits |-> <<>>, popup |-> "none", cells |-> NoCells]

L_InitStates == { L_Start(col) : col \in Columns }

\* One pass of `while attempt < retries` in make_request_with_retries,
\* called at import time (`response = make_request_with_retries(url)`).
\* A response is returned at once.  A ProtocolError adds 1 to attempt and
\* sleeps; when that was the last pass the loop ends and the function
\* raises Exception, which nothing at module level catches.  Any other
\* exception of http.request is not caught at all.
\* The `outcomes` field lists what each http.request call did, in order,
\* and `returned` is the number of the call whose response was returned.
L_request_retries_any_exception ==
    /\ lee03.pc = "request"
    /\ lee03.attempt < L_RETRIES
    /\ \/ lee03' = [lee03 EXCEPT !.requests = @ + 1, !.response = "returned",
                                 !.outcomes = Append(@, "response"),
                                 !.returned = lee03.requests + 1,
                                 !.pc = "read"]
       \/ \E e \in {"ProtocolError", "other"} :
            lee03' = [lee03 EXCEPT !.requests = @ + 1, !.attempt = @ + 1,
                                   !.protocol_errors = @ + 1,
                                   !.outcomes = Append(@, e),
                                   !.response = IF lee03.attempt + 1 = L_RETRIES
                                                THEN "gave_up" ELSE @,
                                   !.pc = IF lee03.attempt + 1 = L_RETRIES
                                          THEN "crashed" ELSE @]
    /\ UNCHANGED L_others

L_request ==
    /\ lee03.pc = "request"
    /\ lee03.attempt < L_RETRIES
    /\ \/ lee03' = [lee03 EXCEPT !.requests = @ + 1, !.response = "returned",
                                 !.outcomes = Append(@, "response"),
                                 !.returned = lee03.requests + 1,
                                 !.pc = "read"]
       \/ lee03' = [lee03 EXCEPT !.requests = @ + 1, !.attempt = @ + 1,
                                 !.protocol_errors = @ + 1,
                                 !.outcomes = Append(@, "ProtocolError"),
                                 !.response = IF lee03.attempt + 1 = L_RETRIES
                                              THEN "gave_up" ELSE @,
                                 !.pc = IF lee03.attempt + 1 = L_RETRIES
                                        THEN "crashed" ELSE @]
       \/ lee03' = [lee03 EXCEPT !.requests = @ + 1, !.response = "other_error",
                                 !.outcomes = Append(@, "other"),
                                 !.pc = "crashed"]
    /\ UNCHANGED L_others

\* fetch_data_and_update_sheet: authentication and the read of the range
\* in a try; on an exception print and return.
L_read ==
    /\ lee03.pc = "read"
    /\ \E ok \in BOOLEAN :
         lee03' = IF ok THEN [lee03 EXCEPT !.pc = "loop", !.read = "ok",
                                           !.sheet_data = lee03.sheet]
                  ELSE [lee03 EXCEPT !.pc = "done", !.read = "failed"]
    /\ UNCHANGED L_others

\* One step of the for loop with
\* `if not owner or owner.strip() == '': continue`.
L_loop ==
    /\ lee03.pc = "loop"
    /\ IF lee03.idx = Len(lee03.sheet_data)
       THEN lee03' = [lee03 EXCEPT !.pc = "done"]
       ELSE LET row   == lee03.sheet_data[lee03.idx + 1]
                owner == IF row # <<>> THEN row[1] ELSE NoneStr
            IN  IF ~Truthy(owner) \/ Strip(owner) = <<>>
                THEN lee03' = [lee03 EXCEPT !.idx = @ + 1]
                ELSE lee03' = [lee03 EXCEPT !.idx = @ + 1, !.pc = "create"]
    /\ UNCHANGED L_others

\* driver = webdriver.Firefox(...), before the try block of the row.
L_create ==
    /\ lee03.pc = "create"
    /\ \E ok \in BOOLEAN :
         lee03' = IF ok THEN [lee03 EXCEPT !.pc = "search", !.driver = TRUE,
                                           !.created = Append(@, L_Row)]
                  ELSE [lee03 EXCEPT !.pc = "crashed",
                                     !.create_failed = Append(@, L_Row)]
    /\ UNCHANGED L_others

\* driver.get(url), wait for the search box, send_keys(owner, RETURN).
L_search ==
    /\ lee03.pc = "search"
    /\ \E ok \in BOOLEAN :
         lee03' = [lee03 EXCEPT !.pc = IF ok THEN "popup" ELSE "finally"]
    /\ UNCHANGED L_others

\* The warning pop-up: wait, find, click inside a bare try/except.
L_popup ==
    /\ lee03.pc = "popup"
    /\ \E outcome \in {"clicked", "absent", "click_raised"} :
         lee03' = [lee03 EXCEPT !.pc = "details", !.popup = outcome]
    /\ UNCHANGED L_others

\* Wait for the result link, open it, wait for the image and click it.
L_details ==
    /\ lee03.pc = "details"
    /\ \E ok \in BOOLEAN :
         lee03' = IF ok THEN [lee03 EXCEPT !.pc = "field", !.k = 1]
                  ELSE [lee03 EXCEPT !.pc = "finally"]
    /\ UNCHANGED L_others

\* The k-th field: find its element, then update its cell; either may
\* raise into `except Exception`, which prints.
L_field ==
    /\ lee03.pc = "field"
    /\ \E ok \in BOOLEAN :
         lee03' =
            IF ~ok THEN [lee03 EXCEPT !.pc = "finally"]
            ELSE [lee03 EXCEPT
                    !.cells = Put(@, <<L_Row, L_Cols[lee03.k]>>, L_FieldText(lee03.k)),
                    !.k = @ + 1,
                    !.pc = IF lee03.k = 5 THEN "finally" ELSE "field"]
    /\ UNCHANGED L_others

\* finally: driver.quit()
L_finally ==
    /\ lee03.pc = "finally"
    /\ lee03' = [lee03 EXCEPT !.pc = "loop", !.driver = FALSE,
                              !.quits = Append(@, L_Row)]
    /\ UNCHANGED L_others

L_Next ==
    \/ L_request
    \/ L_read
    \/ L_loop
    \/ L_create
    \/ L_search
    \/ L_popup
    \/ L_details
    \/ L_field
    \/ L_finally

L_Init ==
    /\ lee03 \in L_InitStates
    /\ pb4 = Idle /\ skipbot = Idle /\ mainpy = Idle
    /\ rapid = Idle /\ pb1 = Idle /\ hendry = Idle /\ rf = Idle
    /\ pb2 = Idle /\ wr = Idle

SpecLee03 == L_Init /\ [][L_Next]_vars

\* C10: after protocol errors on 3 consecutive attempts no further request
\* is made and the script has not crashed (the batch loop can still run).
C10_ThreeProtocolErrorsContained ==
    lee03.protocol_errors = L_RETRIES =>
        /\ lee03.requests = L_RETRIES
        /\ lee03.pc # "crashed"

\* C11: make_request_with_retries makes at most `retries` GET attempts;
\* only a ProtocolError is followed by another attempt, so a response or
\* any other exception is always the last attempt; a returned response is
\* the one of the first attempt that succeeded, every attempt before it
\* having raised ProtocolError (after failures on attempts 1 and 2 the
\* response returned is the third).
C11_BoundedRetriesFirstSuccessReturned ==
    /\ lee03.requests <= L_RETRIES
    /\ Len(lee03.outcomes) = lee03.requests
    /\ \A j \in 1..Len(lee03.outcomes) - 1 : lee03.outcomes[j] = "ProtocolError"
    /\ lee03.response = "returned" <=>
          (lee03.outcomes # <<>> /\ lee03.outcomes[Len(lee03.outcomes)] = "response")
    /\ lee03.response = "returned" => lee03.returned = Len(lee03.outcomes)
    /\ lee03.response # "returned" => lee03.returned = 0
    /\ (lee03.outcomes # <<>> /\ lee03.outcomes[Len(lee03.outcomes)] = "other")
          => lee03.response = "other_error" /\ lee03.pc = "crashed"

\* C11 witness: ProtocolError on attempts 1 and 2, then the response of
\* attempt 3 is returned.
C11_Witness ==
    /\ lee03.outcomes = <<"ProtocolError", "ProtocolError", "response">>
    /\ lee03.returned = 3
    /\ lee03.response = "returned"
    /\ lee03.pc = "read"

\* C12: in fetch_truepeoplesearch_data a navigation timeout or a CAPTCHA
\* page is not retried: no browser attempt for the same URL follows an
\* attempt that ended in one of them.
C12_NoRetryAfterTimeoutOrCaptcha ==
    \A j \in 1..Len(mainpy.attempts) - 1 :
        mainpy.attempts[j] \notin {"timeout", "captcha"}

\* C13: a failure to create the Firefox session of a row does not end the
\* run: the script has not crashed, and once the loop is over every later
\* row with an owner has had its session created.
C13_SessionCreateFailureRowScoped ==
    lee03.create_failed # <<>> =>
        /\ lee03.pc # "crashed"
        /\ lee03.pc = "done" =>
              \A p \in 1..Len(lee03.sheet_data) :
                  (/\ L_START + p - 1 > lee03.create_failed[1]
                   /\ lee03.sheet_data[p] # <<>>
                   /\ Strip(lee03.sheet_data[p][1]) # <<>>)
                  => \E j \in 1..Len(lee03.created) : lee03.created[j] = L_START + p - 1

\* C16: leePA+skip_Bot.py eventually exits: once the batch loop over the
\* input rows has completed, the process terminates (it has exited, or an
\* unhandled exception has ended it).
C16_ExitsAfterBatchLoop ==
    (skipbot.pc = "main_read") ~> (skipbot.pc \in {"exited", "crashed"})

\* C15: every value main.py writes is a field of an entry extracted from
\* the page of that row: the values at odd positions are exactly the text
\* of an extracted entry and the values at even positions exactly its link.
C15_WrittenValuesAreExtractedFields ==
    \A w \in 1..Len(mainpy.writes) :
        LET values    == mainpy.writes[w].values
            extracted == mainpy.writes[w].extracted
        IN  \A j \in 1..Len(values) :
                \E e \in 1..Len(extracted) :
                    IF j % 2 = 1 THEN values[j] = extracted[e].text
                    ELSE values[j] = extracted[e].link

\* Either main.py or leePA_03.py is the script that is run.
SpecMainOrLee03 == (M_Init \/ L_Init) /\ [][M_Next \/ L_Next]_vars

\* C17: when the initial read of the input range fails the run is over
\* with no row processed: in main.py no row is begun, no browser is
\* launched, no fallback request is made and no cell is written; in
\* leePA_03.py no Firefox session is created and no cell is written.
C17_FailedReadAbortsRun ==
    /\ (mainpy.pc # "idle" /\ mainpy.read = "failed") =>
          /\ mainpy.pc = "done"
          /\ mainpy.began = <<>>
          /\ mainpy.attempts = <<>>
          /\ ~mainpy.browser
          /\ mainpy.fallbacks = 0
          /\ mainpy.writes = <<>>
          /\ mainpy.cells = NoCells
    /\ (lee03.pc # "idle" /\ lee03.read = "failed") =>
          /\ lee03.pc = "done"
          /\ lee03.created = <<>>
          /\ lee03.create_failed = <<>>
          /\ ~lee03.driver
          /\ lee03.cells = NoCells

\* C17 witness: the read failed although the range holds a key, and the
\* run has ended.
C17_Witness ==
    \/ /\ mainpy.pc = "done"
       /\ mainpy.read = "failed"
       /\ mainpy.values = << << <<"a">> >> >>
    \/ /\ lee03.pc = "done"
       /\ lee03.read = "failed"
       /\ lee03.sheet = << << <<"a">> >> >>

\* Either hendryPA.py or leePA_03.py is the script that is run.
SpecHendryOrLee03 == (H_Init \/ L_Init) /\ [][H_Next \/ L_Next]_vars

\* C18: the warning-dismissal step never fails a row: whatever happens in
\* it (the button or pop-up is absent, or the click raises), the step
\* leaves the row at the next step of its pipeline, the parcel input in
\* hendryPA.py and the result link in leePA_03.py, with the session still
\* open and nothing else changed.
C18_WarningStepNeverFailsRow ==
    [][ /\ hendry.pc = "warning" =>
              /\ hendry'.pc = "input"
              /\ hendry'.driver
              /\ hendry'.idx = hendry.idx
              /\ hendry'.cells = hendry.cells
        /\ lee03.pc = "popup" =>
              /\ lee03'.pc = "details"
              /\ lee03'.driver
              /\ lee03'.idx = lee03.idx
              /\ lee03'.quits = lee03.quits
              /\ lee03'.cells = lee03.cells ]_vars

\* C18 witness: the warning element was absent or its click raised, and
\* the row is at its next step.
C18_Witness ==
    \/ /\ hendry.pc = "input"
       /\ hendry.warning \in {"absent", "click_raised"}
    \/ /\ lee03.pc = "details"
       /\ lee03.popup \in {"absent", "click_raised"}

\* C19: once the results marker has loaded, absent field elements do not
\* fail the row: the record handed to update_google_sheet holds, for each
\* of the four fields, "Not Found" when its element is absent and its
\* trimmed text otherwise, and when the row has been written the cells C,
\* D, E, F of the row hold exactly these values.
C19_AbsentFieldsWrittenAsNotFound ==
    LET expected(k) == IF pb4.page[k] = Absent THEN <<"N", "o", "t", " ", "F", "o", "u", "n", "d">>
                       ELSE Strip(pb4.page[k])
    IN  /\ pb4.pc = "write" =>
              /\ Len(pb4.rec) = 4
              /\ \A k \in 1..4 : pb4.rec[k] = expected(k)
        /\ (pb4.pc = "finally" /\ pb4.path = "written") =>
              \A k \in 1..4 :
                  /\ <<PB4_Row, PB4_Cols[k]>> \in DOMAIN pb4.cells
                  /\ pb4.cells[<<PB4_Row, PB4_Cols[k]>>] = expected(k)

\* C19 witness: a row whose page lacks the second and fourth field has
\* been written, with "Not Found" in D and F and trimmed text in C and E.
C19_Witness ==
    /\ pb4.pc = "finally"
    /\ pb4.path = "written"
    /\ pb4.page = <<<<"J", " ">>, Absent, <<" ", "9">>, Absent>>
    /\ pb4.cells[<<PB4_Row, "C">>] = <<"J">>
    /\ pb4.cells[<<PB4_Row, "D">>] = <<"N", "o", "t", " ", "F", "o", "u", "n", "d">>
    /\ pb4.cells[<<PB4_Row, "E">>] = <<"9">>
    /\ pb4.cells[<<PB4_Row, "F">>] = <<"N", "o", "t", " ", "F", "o", "u", "n", "d">>

\* C20: the k-th href/text pair of a row (k from 0) is written with stride
\* 2 from column index 19: every successful batch_update_sheet call has an
\* even number of values, the href of pair k is in the cell of column
\* index 19 + 2k of the row and its text in column index 19 + 2k + 1; and
\* get_column_name gives the A1 letters of a 0-based index (19 is T, 25 is
\* Z, 26 is AA).
C20_PairsWrittenWithStrideTwo ==
    LET A1(index) == IF index < 26 THEN <<Letters[index + 1]>>
                     ELSE <<Letters[index \div 26], Letters[(index % 26) + 1]>>
    IN  /\ get_column_name(19) = <<"T">>
        /\ get_column_name(25) = <<"Z">>
        /\ get_column_name(26) = <<"A", "A">>
        /\ \A index \in 0..77 : get_column_name(index) = A1(index)
        /\ rapid.pc = "update" =>
              /\ Len(rapid.row_data) % 2 = 0
              /\ \E pairs \in R_PagePairs :
                    /\ Len(rapid.row_data) = 2 * Len(pairs)
                    /\ \A k \in 0..Len(pairs) - 1 :
                          /\ rapid.row_data[2 * k + 1] = pairs[k + 1].href
                          /\ rapid.row_data[2 * k + 2] = Strip(pairs[k + 1].text)
        /\ \A u \in 1..Len(rapid.updates) :
              rapid.updates[u].ok =>
                  LET data == rapid.updates[u].data
                      row  == rapid.updates[u].row_number
                  IN  \A k \in 0..(Len(data) \div 2) - 1 :
                          /\ <<row, A1(19 + 2 * k)>> \in DOMAIN rapid.cells
                          /\ rapid.cells[<<row, A1(19 + 2 * k)>>] = data[2 * k + 1]
                          /\ <<row, A1(19 + 2 * k + 1)>> \in DOMAIN rapid.cells
                          /\ rapid.cells[<<row, A1(19 + 2 * k + 1)>>] = data[2 * k + 2]

\* C20 witness: a row with four pairs has been written; its first href is
\* in column T and the text of its fourth pair in column AA.
C20_Witness ==
    /\ rapid.updates # <<>>
    /\ rapid.updates[1].ok
    /\ Len(rapid.updates[1].data) = 8
    /\ rapid.cells[<<rapid.updates[1].row_number, <<"T">>>>] = <<"h", "1">>
    /\ rapid.cells[<<rapid.updates[1].row_number, <<"Z">>>>] = <<"h", "4">>
    /\ rapid.cells[<<rapid.updates[1].row_number, <<"A", "A">>>>] = <<"t", "4">>

(***************************************************************************)
(* realForeclose.py: scrape_data walks the pages of one auction listing    *)
(* with one Edge session, log_data_to_google_sheets writes the records     *)
(* below the last filled row of column A.  The sheet outlives the script,  *)
(* so the script can be run again on the sheet it has left.                *)
(***************************************************************************)

\* Most .PREVIEW batches on one page of the listing.
MaxBatches == 2

\* Most pages of the listing.
MaxPages == 2

\* How many times the script is run on the same sheet.
MaxRuns == 2

\* The header row log_data_to_google_sheets writes into A1:H1.
RF_HEADERS ==
    << <<"Auction Time">>, <<"CaseNumber">>, <<"Final Judgement">>, <<"ParcelID">>,
       <<"Site Address">>, <<"City & Zipcode">>, <<"Parcel URL">> >>

\* The .PREVIEW batches a page can hold: the texts of the seven elements in
\* the order scrape_data reads them (auction time, case number, judgement,
\* parcel, parcel href, address, city and zip), or a batch in which one of
\* the elements is missing.
RF_Batches ==
    { [kind |-> "record",
       fields |-> << <<"t", "1">>, <<"c", "1">>, <<"f">>, <<"p">>, <<"h", " ">>,
                     <<"a", "d">>, <<"z">> >>],
      [kind |-> "record",
       fields |-> << <<"Redeemed">>, <<"c", "2">>, <<"f">>, <<"p">>, <<"h">>,
                     <<"a", "d">>, <<"z">> >>],
      [kind |-> "broken"] }

\* str.lower() on the texts used here.
RF_lower(text) ==
    [i \in DOMAIN text |-> IF text[i] = "Redeemed" THEN "redeemed" ELSE text[i]]

\* The body of `for batch in batches` for one batch: the row appended to
\* extracted_data, or nothing for a redeemed batch and for a batch whose
\* extraction raised.
RF_batch_rows(batch) ==
    IF batch.kind = "broken" THEN <<>>
    ELSE IF RF_lower(batch.fields[1]) = <<"redeemed">> THEN <<>>
    ELSE << << Strip(batch.fields[1]), Strip(batch.fields[2]), Strip(batch.fields[3]),
               Strip(batch.fields[4]), Strip(batch.fields[6]), Strip(batch.fields[7]),
               Strip(batch.fields[5]) >> >>

\* `for batch in batches` over the batches of a page.
RECURSIVE RF_page_rows(_)
RF_page_rows(batches) ==
    IF batches = <<>> THEN <<>>
    ELSE RF_batch_rows(Head(batches)) \o RF_page_rows(Tail(batches))

\* The pages a listing can have.
RF_PageSet == SeqsUpTo(RF_Batches, MaxBatches)

\* The listings: the pagination element is missing, or its text does not
\* match "page of N" (one page), or it names the number of pages.
RF_Sites ==
    { [pagination |-> pg, pages |-> <<page>>] :
          pg \in {"absent", "nomatch", "pageof"}, page \in RF_PageSet }
    \cup { [pagination |-> "pageof", pages |-> pages] :
             pages \in { q \in SeqsUpTo(RF_PageSet, MaxPages) : Len(q) >= 2 } }

RF_others == <<pb4, skipbot, mainpy, rapid, pb1, hendry, lee03, pb2, wr>>

RF_Start(site) ==
    [pc |-> "main", run |-> 1, site |-> site, driver |-> FALSE,
     created |-> 0, quits |-> 0, current_page |-> 1, total_pages |-> 1,
     pages_done |-> 0, extracted_data |-> <<>>, result |-> "pending",
     data |-> <<>>, exit |-> "none", next_failed |-> FALSE, cells |-> NoCells,
     snapshots |-> <<>>]

RF_InitStates == { RF_Start(site) : site \in RF_Sites }

\* __main__ calls scrape_data(url); webdriver.Edge(options=options) comes
\* before the try block.
RF_scrape_data ==
    /\ rf.pc = "main"
    /\ \E ok \in BOOLEAN :
         rf' = IF ok THEN [rf EXCEPT !.pc = "get", !.driver = TRUE, !.created = @ + 1,
                                     !.extracted_data = <<>>]
               ELSE [rf EXCEPT !.pc = "crashed"]
    /\ UNCHANGED RF_others

\* The return paths of scrape_data: `return extracted_data`, or the outer
\* `except Exception` that prints and lets the function return None.
RF_return(s, why) ==
    [s EXCEPT !.pc = "quit", !.exit = why,
              !.result = IF why = "exception" THEN "none" ELSE "list"]

\* driver.get(url) and the sleep.
RF_get ==
    /\ rf.pc = "get"
    /\ \E ok \in BOOLEAN :
         rf' = IF ok THEN [rf EXCEPT !.pc = "page", !.current_page = 1, !.total_pages = 1]
               ELSE RF_return(rf, "exception")
    /\ UNCHANGED RF_others

\* One pass of `while current_page <= total_pages` up to the end of the
\* batch loop.  Reading the pagination text is in a try whose except
\* breaks: that happens on every page of a listing without the element,
\* and on any page where find_element or .text raises.  Then total_pages
\* is set, the .PREVIEW batches are found (an exception there reaches the
\* outer except) and each is extracted.
RF_page ==
    /\ rf.pc = "page"
    /\ IF rf.current_page > rf.total_pages
       THEN rf' = RF_return(rf, "loop_end")
       ELSE \E outcome \in {"ok", "pagination_raised", "batches_raised"} :
              LET total == IF rf.site.pagination = "pageof"
                           THEN Len(rf.site.pages) ELSE 1
              IN  rf' = IF rf.site.pagination = "absent" \/ outcome = "pagination_raised"
                        THEN RF_return(rf, "pagination_break")
                        ELSE IF outcome = "batches_raised"
                        THEN RF_return([rf EXCEPT !.total_pages = total], "exception")
                        ELSE [rf EXCEPT
                                !.total_pages = total,
                                !.extracted_data =
                                    @ \o RF_page_rows(rf.site.pages[rf.current_page]),
                                !.pages_done = rf.current_page,
                                !.pc = "next"]
    /\ UNCHANGED RF_others

\* The try block at the end of the pass: click the next-page button when
\* there is a next page, else break.  Only TimeoutException is caught
\* there; any other exception of find_element or click reaches the outer
\* `except Exception`.
RF_next ==
    /\ rf.pc = "next"
    /\ IF rf.current_page < rf.total_pages
       THEN \E outcome \in {"clicked", "TimeoutException", "other"} :
              rf' = IF outcome = "clicked"
                    THEN [rf EXCEPT !.current_page = @ + 1, !.pc = "page"]
                    ELSE IF outcome = "TimeoutException"
                    THEN RF_return([rf EXCEPT !.next_failed = TRUE], "next_timeout")
                    ELSE RF_return([rf EXCEPT !.next_failed = TRUE], "exception")
       ELSE rf' = RF_return(rf, "last_page")
    /\ UNCHANGED RF_others

\* finally: driver.quit(); back in __main__, `if data:` decides whether
\* log_data_to_google_sheets is called.
RF_quit ==
    /\ rf.pc = "quit"
    /\ LET data == IF rf.result = "list" THEN rf.extracted_data ELSE <<>>
       IN  rf' = [rf EXCEPT !.driver = FALSE, !.quits = @ + 1, !.data = data,
                            !.pc = IF data # <<>> THEN "log" ELSE "done"]
    /\ UNCHANGED RF_others

\* values().get of A1:H1 has 'values' when some cell of row 1 is not empty.
RF_has_header(cells) ==
    \E c \in DOMAIN cells : c[1] = 1 /\ c[2] \in 1..8 /\ cells[c] # <<>>

\* len(all_data.get("values", [])) for the range A:A: the rows down to the
\* last cell of column A that is not empty.
RF_len_column_A(cells) ==
    LET filled == { c[1] : c \in { x \in DOMAIN cells : x[2] = 1 /\ cells[x] # <<>> } }
    IN  IF filled = {} THEN 0
        ELSE CHOOSE r \in filled : \A q \in filled : q <= r

\* One row of an update: row[j] goes to column j of sheet row r.
RECURSIVE RF_write_row(_, _, _, _)
RF_write_row(cells, r, row, j) ==
    IF j > Len(row) THEN cells
    ELSE RF_write_row(Put(cells, <<r, j>>, row[j]), r, row, j + 1)

\* values().update of the range starting at A{r}: rows[i] goes to sheet
\* row r + i - 1.
RECURSIVE RF_write_rows(_, _, _)
RF_write_rows(cells, r, rows) ==
    IF rows = <<>> THEN cells
    ELSE RF_write_rows(RF_write_row(cells, r, Head(rows), 1), r + 1, Tail(rows))

\* The row log_data_to_google_sheets starts writing at.
RF_last_row(cells) == RF_len_column_A(cells) + 1

\* log_data_to_google_sheets(data): authenticate, read A1:H1, write the
\* headers when the row is empty, read A:A, write the data from last_row.
\* Any of the calls may raise; the function prints and returns, keeping
\* what was written before.  failed names the call that raised.
RF_log ==
    /\ rf.pc = "log"
    /\ \E failed \in {"none", "authenticate", "get_header", "update_header",
                       "get_column", "update_data"} :
         LET need  == ~RF_has_header(rf.cells)
             wrote == need /\ failed \notin {"authenticate", "get_header", "update_header"}
             c1    == IF wrote THEN RF_write_row(rf.cells, 1, RF_HEADERS, 1) ELSE rf.cells
             c2    == IF failed = "none"
                      THEN RF_write_rows(c1, RF_last_row(c1), rf.data) ELSE c1
         IN  /\ failed = "update_header" => need
             /\ rf' = [rf EXCEPT !.cells = c2, !.pc = "done",
                                 !.snapshots = IF failed = "none" THEN Append(@, c2) ELSE @]
    /\ UNCHANGED RF_others

\* The script is run again on the same listing and the sheet it left.
RF_run_again ==
    /\ rf.pc = "done"
    /\ rf.run < MaxRuns
    /\ rf' = [RF_Start(rf.site) EXCEPT !.run = rf.run + 1, !.cells = rf.cells,
                                       !.snapshots = rf.snapshots,
                                       !.created = rf.created, !.quits = rf.quits]
    /\ UNCHANGED RF_others

RF_Next ==
    \/ RF_scrape_data
    \/ RF_get
    \/ RF_page
    \/ RF_next
    \/ RF_quit
    \/ RF_log
    \/ RF_run_again

RF_Init ==
    /\ rf \in RF_InitStates
    /\ pb4 = Idle /\ skipbot = Idle /\ mainpy = Idle /\ rapid = Idle
    /\ pb1 = Idle /\ hendry = Idle /\ lee03 = Idle
    /\ pb2 = Idle /\ wr = Idle

SpecRealForeclose == RF_Init /\ [][RF_Next]_vars

\* C14: writes are idempotent: when the script has logged the records of
\* the same listing twice, the sheet after the second run has the same
\* cell contents as after the first.
C14_SecondRunLeavesSheetUnchanged ==
    Len(rf.snapshots) >= 2 => rf.snapshots[2] = rf.snapshots[1]

(***************************************************************************)
(* The two sheet writers side by side: main.py update_sheet_data (one      *)
(* update of a range starting at column T) and rapid_API.py                *)
(* batch_update_sheet (one batchUpdate of single-cell ranges), each given  *)
(* the same list of values, the same row and a sheet of the same width.    *)
(***************************************************************************)

\* Longest list of values handed to the writers.
MaxValues == 21

\* The 0-based index of column 'AM', the end column update_sheet_data
\* falls back to.
M_END_COL_AM == 38

\* len(ascii_uppercase)
M_ALPHABET == 26

\* gridProperties.columnCount of the sheet before the write.
W_ColumnCounts == {26, 40}

\* The column target_range ends at for n values: end_col_index while it is
\* a single letter, else 'AM'.
update_end_col(n) ==
    IF M_START_COL + n - 1 < M_ALPHABET THEN M_START_COL + n - 1 ELSE M_END_COL_AM

\* Whether values().update takes the request of update_sheet_data: the
\* range lies inside the grid and the row of values is not wider than it.
update_sheet_data_accepted(n, column_count) ==
    /\ update_end_col(n) < column_count
    /\ M_START_COL + n - 1 <= update_end_col(n)

\* expand_sheet_columns_if_needed called for col_index = 19 .. 19 + n - 1:
\* the column count after the calls.
expand_sheet_columns(column_count, n) ==
    IF R_BASE_COL + n > column_count THEN R_BASE_COL + n ELSE column_count

W_others == <<pb4, skipbot, mainpy, rapid, pb1, hendry, lee03, rf, pb2>>

W_Start(n, row, column_count) ==
    [pc |-> "write", row |-> row, column_count |-> column_count,
     values |-> [j \in 1..n |-> <<"v", j>>],
     main |-> "pending", main_cells |-> NoCells,
     rapid |-> "pending", rapid_cells |-> NoCells, rapid_columns |-> column_count]

W_InitStates ==
    { W_Start(n, row, cc) : n \in 1..MaxValues, row \in {2, 3}, cc \in W_ColumnCounts }

\* update_sheet_data(sheet_id, row, values): the request fails in transit,
\* or the API rejects it, or the values are written.
W_update_sheet_data ==
    /\ wr.pc = "write"
    /\ wr.main = "pending"
    /\ \/ wr' = [wr EXCEPT !.main = "error"]
       \/ wr' = IF update_sheet_data_accepted(Len(wr.values), wr.column_count)
                THEN [wr EXCEPT !.main = "accepted",
                                !.main_cells = update_sheet_data(@, wr.row, wr.values, 0)]
                ELSE [wr EXCEPT !.main = "rejected"]
    /\ UNCHANGED W_others

\* batch_update_sheet(credentials, values, row): for each value in turn
\* the columns are added as needed, then one batchUpdate writes every
\* cell.  A call that fails in transit raises: when it is a call made for
\* value j + 1 (or the final batchUpdate, j = n) the sheet already has the
\* columns added for the first j values.
W_batch_update_sheet ==
    /\ wr.pc = "write"
    /\ wr.rapid = "pending"
    /\ \/ \E j \in 0..Len(wr.values) :
            wr' = [wr EXCEPT !.rapid = "error",
                             !.rapid_columns = expand_sheet_columns(@, j)]
       \/ wr' = [wr EXCEPT !.rapid = "accepted",
                           !.rapid_columns = expand_sheet_columns(@, Len(wr.values)),
                           !.rapid_cells = batch_update_sheet(@, wr.values, wr.row, 0)]
    /\ UNCHANGED W_others

W_Next ==
    \/ W_update_sheet_data
    \/ W_batch_update_sheet

W_Init ==
    /\ wr \in W_InitStates
    /\ pb4 = Idle /\ skipbot = Idle /\ mainpy = Idle /\ rapid = Idle
    /\ pb1 = Idle /\ hendry = Idle /\ lee03 = Idle /\ rf = Idle /\ pb2 = Idle

SpecWriters == W_Init /\ [][W_Next]_vars

\* C21: for every list of n >= 1 values both writers place the j-th value
\* in column T + j of their target row, and a request that reaches the API
\* succeeds for one writer exactly when it succeeds for the other.
C21_WritersEquivalent ==
    LET A1(index) == IF index < 26 THEN <<Letters[index + 1]>>
                     ELSE <<Letters[index \div 26], Letters[(index % 26) + 1]>>
        n == Len(wr.values)
    IN  /\ wr.main = "accepted" =>
              \A j \in 0..n - 1 :
                  wr.main_cells[<<update_row(wr.row), M_START_COL + j>>] = wr.values[j + 1]
        /\ wr.rapid = "accepted" =>
              \A j \in 0..n - 1 :
                  wr.rapid_cells[<<wr.row, A1(R_BASE_COL + j)>>] = wr.values[j + 1]
        /\ (wr.main \in {"accepted", "rejected"} /\ wr.rapid \in {"accepted", "rejected"})
              => wr.main = wr.rapid

\* C22: main.py never has more than one browser open: a browser is only
\* launched when none is open, over all attempts of a row and all rows.
C22_AtMostOneBrowser ==
    /\ mainpy.open_browsers <= 1
    /\ mainpy.pc # "goto" => mainpy.open_browsers = 0

\* C22 witness: the browser of the second attempt of a row is open after
\* the first attempt timed out.
C22_Witness ==
    /\ mainpy.pc = "goto"
    /\ mainpy.attempts = <<"timeout">>
    /\ mainpy.open_browsers = 1

(***************************************************************************)
(* Either script that keeps one browser for the whole batch runs:          *)
(* hendryPA.py or palmBayPA1.py.                                           *)
(***************************************************************************)

SpecHendryOrPB1 == (H_Init \/ PB1_Init) /\ [][H_Next \/ PB1_Next]_vars

\* C23: in hendryPA.py and palmBayPA1.py the key of a row is typed only
\* into the search root page that a driver.get of the same row loaded,
\* whatever the previous row did: when the code is about to type, the
\* browser shows the root and the last navigation is the one of this row,
\* and every row whose key was typed was navigated for.
C23_RowRenavigatesBeforeTyping ==
    /\ hendry.pc \in {"warning", "input"} =>
          /\ hendry.page = "root"
          /\ hendry.navigated # <<>>
          /\ hendry.navigated[Len(hendry.navigated)] = H_Row
    /\ hendry.pc # "idle" =>
          \A j \in 1..Len(hendry.typed) :
              \E n \in 1..Len(hendry.navigated) : hendry.navigated[n] = hendry.typed[j]
    /\ pb1.pc = "search" =>
          /\ pb1.page = "root"
          /\ pb1.navigated # <<>>
          /\ pb1.navigated[Len(pb1.navigated)] = PB1_Row
    /\ pb1.pc # "idle" =>
          \A j \in 1..Len(pb1.typed) :
              \E n \in 1..Len(pb1.navigated) : pb1.navigated[n] = pb1.typed[j]

\* C23 witness: the first row submitted its search and then failed (a
\* field missing in hendryPA.py, the results marker timing out in
\* palmBayPA1.py), and the code is about to type the key of the next row.
C23_Witness ==
    \/ /\ hendry.pc = "input"
       /\ hendry.typed = <<H_START>>
       /\ hendry.missing # <<>>
       /\ H_Row = H_START + 1
    \/ /\ pb1.pc = "search"
       /\ pb1.typed = <<PB1_START>>
       /\ pb1.timeouts = <<PB1_START>>
       /\ PB1_Row = PB1_START + 1

\* C24: fetch_page_html makes at most `retries` (3) page.goto calls for a
\* URL, whichever failures occur.
C24_AtMostRetriesNavigations == rapid.gotos <= R_RETRIES

(***************************************************************************)
(* palmBayPA2.py: one Firefox session per row.  process_row has three try  *)
(* blocks in a row: the session and the search, a re-read of the sheet     *)
(* whose except returns, and the field reads with the finally block that   *)
(* quits the session.                                                      *)
(***************************************************************************)

\* enumerate(sheet_data, start=2739)
PB2_START == 2739

\* The cells process_row updates, in order.
PB2_Cols == <<"C", "D", "E", "F">>

\* The text of the k-th field element of the result page.
PB2_FieldText(k) == <<"v", PB2_Cols[k]>>

PB2_Row == PB2_START + pb2.idx - 1

PB2_others == <<pb4, skipbot, mainpy, rapid, pb1, hendry, lee03, rf, wr>>

PB2_Start(col) ==
    [pc |-> "loop", sheet_data |-> col, idx |-> 0, k |-> 0, driver |-> FALSE,
     search |-> "none", created |-> <<>>, quits |-> <<>>, exits |-> <<>>,
     cells |-> NoCells]

\* fetch_data_and_update_sheet (the second definition, the one that runs)
\* up to the loop: the range is read; a failed read raises out of it.
PB2_InitStates ==
    { PB2_Start(col) : col \in Columns } \cup { [PB2_Start(<<>>) EXCEPT !.pc = "crashed"] }

\* One step of `for i, row in enumerate(sheet_data, start=2739)`: blank
\* rows are skipped, any other row is handed to process_row, which starts
\* with driver = None.
PB2_loop ==
    /\ pb2.pc = "loop"
    /\ IF pb2.idx = Len(pb2.sheet_data)
       THEN pb2' = [pb2 EXCEPT !.pc = "done"]
       ELSE LET row  == pb2.sheet_data[pb2.idx + 1]
                site == IF row # <<>> THEN Strip(row[1]) ELSE NoneStr
            IN  IF ~Truthy(site)
                THEN pb2' = [pb2 EXCEPT !.idx = @ + 1]
                ELSE pb2' = [pb2 EXCEPT !.idx = @ + 1, !.pc = "create",
                                         !.driver = FALSE, !.search = "none"]
    /\ UNCHANGED PB2_others

\* driver = webdriver.Firefox(...) in the first try block: the session
\* exists, or the constructor raises with driver still None; the except
\* only prints and the function goes on to the re-read.
PB2_create ==
    /\ pb2.pc = "create"
    /\ \E ok \in BOOLEAN :
         pb2' = IF ok
                THEN [pb2 EXCEPT !.driver = TRUE, !.pc = "search",
                                 !.created = Append(@, PB2_Row)]
                ELSE [pb2 EXCEPT !.pc = "reread", !.search = "no_session"]
    /\ UNCHANGED PB2_others

\* driver.get, the wait for the search input, send_keys and the wait for
\* the results marker; the except only prints, so either way the function
\* goes on to the re-read.
PB2_search ==
    /\ pb2.pc = "search"
    /\ \E ok \in BOOLEAN :
         pb2' = [pb2 EXCEPT !.pc = "reread",
                            !.search = IF ok THEN "loaded" ELSE "failed"]
    /\ UNCHANGED PB2_others

\* The exit of process_row recorded with the state of the session.
PB2_return(s, why) ==
    [s EXCEPT !.pc = "loop",
              !.exits = Append(@, [row |-> PB2_START + s.idx - 1, why |-> why,
                                   search |-> s.search, open |-> s.driver])]

\* The except of the second try block: print and `return`, before the
\* try/finally that quits the session is entered.
PB2_reread_failed(s) == PB2_return(s, "reread_failed")

\* The second try block: authenticate and read the range again.
PB2_reread ==
    /\ pb2.pc = "reread"
    /\ \E ok \in BOOLEAN :
         pb2' = IF ok THEN [pb2 EXCEPT !.pc = "field", !.k = 1]
                ELSE PB2_reread_failed(pb2)
    /\ UNCHANGED PB2_others

\* The third try block, one field per step: find_element (a bounded wait
\* for the third) and the update of its cell.  With driver None the first
\* find_element raises AttributeError.  Any exception goes to the except
\* and the finally; after the fourth cell the try block ends.
PB2_field ==
    /\ pb2.pc = "field"
    /\ \E ok \in BOOLEAN :
         pb2' = IF ~pb2.driver \/ ~ok
                THEN [pb2 EXCEPT !.pc = "finally"]
                ELSE [pb2 EXCEPT
                        !.cells = Put(@, <<PB2_Row, PB2_Cols[pb2.k]>>, PB2_FieldText(pb2.k)),
                        !.k = @ + 1,
                        !.pc = IF pb2.k = 4 THEN "finally" ELSE "field"]
    /\ UNCHANGED PB2_others

\* finally: `if driver: driver.quit()`, then process_row returns.
PB2_finally ==
    /\ pb2.pc = "finally"
    /\ pb2' = IF pb2.driver
              THEN PB2_return([pb2 EXCEPT !.driver = FALSE,
                                          !.quits = Append(@, PB2_Row)], "finally")
              ELSE PB2_return(pb2, "finally")
    /\ UNCHANGED PB2_others

PB2_Next ==
    \/ PB2_loop
    \/ PB2_create
    \/ PB2_search
    \/ PB2_reread
    \/ PB2_field
    \/ PB2_finally

PB2_Init ==
    /\ pb2 \in PB2_InitStates
    /\ pb4 = Idle /\ skipbot = Idle /\ mainpy = Idle /\ rapid = Idle
    /\ pb1 = Idle /\ hendry = Idle /\ lee03 = Idle /\ rf = Idle /\ wr = Idle

SpecPalmBayPA2 == PB2_Init /\ [][PB2_Next]_vars

\* C25: whenever process_row of palmBayPA2.py has returned, the Firefox
\* session it created is closed: no exit leaves the session open, and the
\* sessions quit are exactly the sessions created.
C25_SessionClosedOnEveryExit ==
    /\ \A j \in 1..Len(pb2.exits) : ~pb2.exits[j].open
    /\ pb2.pc \in {"loop", "done"} => pb2.quits = pb2.created

\* The key of the row at position p (from 1) of column A is non-blank.
C26_KeyNonBlank(p) ==
    /\ pb1.site_data[p] # <<>>
    /\ Truthy(Strip(pb1.site_data[p][1]))

\* The check cell of the row at position p of column G, as the sheet
\* returned the column, is blank or missing.
C26_CheckBlankOrMissing(p) ==
    \/ p > Len(pb1.checks_read)
    \/ pb1.checks_read[p] = <<>>
    \/ ~Truthy(Strip(pb1.checks_read[p][1]))

\* C26: in palmBayPA1.py, when the loop has ended, process_row was invoked
\* for sheet row i exactly when the column-A key of row i is non-blank
\* and its column-G cell is blank or missing, also for rows beyond the end
\* of the G column the sheet returned; the shared browser is never quit
\* twice and is quit exactly once when the function has ended, also after
\* rows that failed.
C26_InvokedIffEligibleAndQuitOnce ==
    /\ pb1.pc \in {"finally", "done"} =>
          \A p \in 1..Len(pb1.site_data) :
              (C26_KeyNonBlank(p) /\ C26_CheckBlankOrMissing(p))
                  <=> \E j \in 1..Len(pb1.invoked) : pb1.invoked[j] = PB1_START + p - 1
    /\ \A j \in 1..Len(pb1.invoked) :
          pb1.invoked[j] - PB1_START + 1 \in 1..Len(pb1.site_data)
    /\ pb1.quits <= 1
    /\ pb1.pc = "done" => pb1.quits = 1 /\ ~pb1.driver
    /\ pb1.pc \in {"loop", "navigate", "search", "wait_result", "extract", "write",
                   "finally"} => pb1.quits = 0 /\ pb1.driver

\* C26 witness: column G came back shorter than column A, the row past
\* the end of G was processed after an earlier row had failed, and the
\* browser is quit.
C26_Witness ==
    /\ pb1.pc = "done"
    /\ Len(pb1.checks_read) < Len(pb1.site_data)
    /\ pb1.invoked = <<PB1_START, PB1_START + 1>>
    /\ pb1.timeouts = <<PB1_START>>
    /\ pb1.quits = 1

\* C27: in leePA+skip_Bot.py, when the loop of fetch_data_and_update_sheet
\* has ended, every row of column A whose owner key is non-empty was taken
\* up for processing, however many rows column X returned.
C27_EveryKeyedRowProcessed ==
    skipbot.pc = "main_read" =>
        \A j \in 1..Len(skipbot.owners) :
            (skipbot.owners[j] # <<>> /\ Truthy(skipbot.owners[j][1])) =>
                \E n \in 1..Len(skipbot.began) : skipbot.began[n] = SKIP_START + j - 1

\* C28: in hendryPA.py every write is to the next cell, in the order Z, AA,
\* AB, AC, AD, of the row being processed: the cells of that row written
\* before are exactly the earlier cells of the sequence, the cell was not
\* written before in the run, and no other cell of the sheet changes.
C28_WritesFollowPrefixOrder ==
    [][ IF hendry.written' # hendry.written
        THEN LET e == hendry.written'[Len(hendry.written')]
             IN  /\ hendry.written' = Append(hendry.written, e)
                 /\ e[1] = H_Row
                 /\ e \notin DOMAIN hendry.cells
                 /\ \E m \in 1..Len(H_Cols) :
                       /\ e[2] = H_Cols[m]
                       /\ H_ColsWritten(e[1]) = { H_Cols[n] : n \in 1..(m - 1) }
                 /\ DOMAIN hendry.cells' = DOMAIN hendry.cells \cup {e}
                 /\ \A c \in DOMAIN hendry.cells : hendry.cells'[c] = hendry.cells[c]
        ELSE hendry.cells' = hendry.cells ]_vars

\* C28 witness: row 2 stopped after Z and AA, and row 3 has all five cells.
C28_Witness ==
    /\ H_ColsWritten(H_START) = {"Z", "AA"}
    /\ H_ColsWritten(H_START + 1) = {"Z", "AA", "AB", "AC", "AD"}
    /\ Len(hendry.written) = 7

\* C29: in realForeclose.py, when scrape_data has returned after the step
\* to the next page failed, the caller holds the records of the pages
\* scraped before the failure; and once scrape_data has returned, every
\* browser it created was quit, exactly once each.
C29_RecordsKeptAndBrowserQuitOnce ==
    /\ (rf.pc \in {"log", "done"} /\ rf.next_failed) => rf.data = rf.extracted_data
    /\ rf.pc \in {"log", "done"} => rf.quits = rf.created /\ ~rf.driver

\* C30: in main.py every call of extract_links is given the page content
\* of a successful Playwright attempt, never the list the Browserless
\* fallback returned, and the fallback is called at most once for a row.
C30_ExtractLinksOnlyGetsPageContent ==
    /\ \A j \in 1..Len(mainpy.extract_calls) : mainpy.extract_calls[j] = "content"
    /\ mainpy.fallbacks <= 1

====
